---- MODULE Spec2Model ----
(***************************************************************************)
(* The GitHub documentation operations of src/main.py as a state machine.  *)
(*                                                                         *)
(* One behaviour is one call of one operation (op, chosen in Init).  Every *)
(* action is one upstream request of that call together with everything    *)
(* the code does with its response up to the next request, the return or   *)
(* the raise.  The upstream (GitHub's REST API) is the environment: each   *)
(* action draws the response of its request from a small set.              *)
(*                                                                         *)
(* Text the code only copies (descriptions, urls) is a TLA+ string.  Text  *)
(* the code or its caller computes on (file names, str(id), error bodies   *)
(* and messages) is a sequence of one-character strings.  An optional JSON *)
(* field is <<v>> when it is there and <<>> when it is absent (for a field *)
(* read with "x or ''", also when it is null).                             *)
(***************************************************************************)
EXTENDS Integers, Sequences, FiniteSets, TLC

VARIABLES
    op,          \* the operation this call runs
    arg,         \* its argument: the path of get_file_content, the filename of
                 \* determine_content_type, <<>> for the other operations
    pc,          \* where the call stands
    requests,    \* the upstream requests issued so far, in order
    searchResp,  \* get_org_repos: the response of the search request, <<r>> once received
    enumResps,   \* get_org_repos: the responses of the enumeration requests, in order
    all_repos,   \* get_org_repos: local all_repos
    page,        \* get_org_repos: local page
    probes,      \* get_org_repos: the responses of the probes made so far, in order
    response,    \* get_repo_docs, get_file_content, search_documentation: the
                 \* response of the request, <<r>> once received
    result,      \* local result / repos_with_docs / docs: the list being built or
                 \* returned; the dictionary get_file_content returns
    outcome,     \* "pending", "returned" or "raised"
    error,       \* <<e>> once the call has raised e
    session,     \* the call's aiohttp.ClientSession: "none" before it is
                 \* opened, then "open", then "closed"
    opened,      \* the number of sessions the call has opened
    environ,     \* os.environ's GITHUB_TOKEN when main.py was imported: <<>>
                 \* when it is not set, <<v>> when it is set to v
    parked,      \* two simultaneous calls: the locals of the call that is
                 \* suspended at an await; <<>> when there is one call only
    running,     \* two simultaneous calls: which of them, 1 or 2, the
                 \* variables above belong to
    client,      \* MCPClient: self._client, "none" or "open"
    answer,      \* MCPClient.call_tool: what the post of the last call met, <<a>>
    tool_result, \* MCPClient.call_tool: what the last call gave its caller, <<r>>
    message_id,  \* MCPSSEClient: self._message_id
    calls,       \* MCPSSEClient: the send_message calls made, in the order
                 \* they were made
    wire,        \* MCPSSEClient: the messages posted, in the order the
                 \* server received them
    task_storage,  \* showcase server: the dictionary task_storage
    pending,     \* showcase server: the create_task calls that were made and
                 \* whose coroutine has not run yet
    created,     \* showcase server: the TaskOutput of every completed
                 \* create_task call, in the order they completed
    reply        \* showcase server: the reply of the last REST request, <<r>>

mainVars == <<op, arg, pc, requests, searchResp, enumResps, all_repos, page, probes,
              response, result, outcome, error, session, opened>>

clientVars == <<client, answer, tool_result, message_id, calls, wire>>

showcaseVars == <<task_storage, pending, created, reply>>

vars == <<mainVars, environ, parked, running, clientVars, showcaseVars>>

----------------------------------------------------------------------------
(* Bounds of the model, and the page size. *)

\* The search response holds at most this many items.
MaxItems == 3

\* The upstream serves at most this many full pages of an organization,
\* and then a short or an empty one.
MaxPages == 1

\* The folder listing holds at most this many entries.
MaxEntries == 2

\* RESULTS_PER_PAGE (src/main.py:34) is 100 in the program.  The code only
\* compares len(repos) with it, so the model scales it down: a page of
\* RESULTS_PER_PAGE entries is a full page, a shorter one is the last.
RESULTS_PER_PAGE == 2

----------------------------------------------------------------------------
(* Generic helpers. *)

SeqsUpTo(S, n) == UNION {[1..k -> S] : k \in 0..n}

\* dict.get(key, default) / obj.get(key) on an optional field.
Get(opt, default) == IF opt = <<>> THEN default ELSE opt[1]

\* "x or ''" on an optional text field: None, absent and "" all give "".
OrEmpty(opt) == IF opt = <<>> \/ opt = <<"">> THEN "" ELSE opt[1]

DigitChar == <<"0", "1", "2", "3", "4", "5", "6", "7", "8", "9">>

\* str(n) for a natural number: its decimal digits.
RECURSIVE Str(_)
Str(n) ==
    IF n < 10 THEN <<DigitChar[n + 1]>>
    ELSE Str(n \div 10) \o <<DigitChar[(n % 10) + 1]>>

\* str(repo_info.get("id", "")): str("") is "".
StrOpt(opt) == IF opt = <<>> THEN <<>> ELSE Str(opt[1])

----------------------------------------------------------------------------
(* Strings the code computes on: sequences of one-character strings. *)

UpperChars == <<"A", "B", "C", "D", "E", "F", "G", "H", "I", "J", "K", "L", "M",
                "N", "O", "P", "Q", "R", "S", "T", "U", "V", "W", "X", "Y", "Z">>

LowerChars == <<"a", "b", "c", "d", "e", "f", "g", "h", "i", "j", "k", "l", "m",
                "n", "o", "p", "q", "r", "s", "t", "u", "v", "w", "x", "y", "z">>

\* Mutant of Lower: the name is left as it is written.
Lower_asWritten(str) == str

\* str.lower() on one character.
LowerChar(c) ==
    IF \E k \in DOMAIN UpperChars : UpperChars[k] = c
    THEN LowerChars[CHOOSE k \in DOMAIN UpperChars : UpperChars[k] = c]
    ELSE c

\* str.lower()
Lower(str) == [i \in DOMAIN str |-> LowerChar(str[i])]

\* str.endswith(suffix)
EndsWith(str, suffix) ==
    /\ Len(suffix) <= Len(str)
    /\ SubSeq(str, Len(str) - Len(suffix) + 1, Len(str)) = suffix

\* str.startswith(prefix)
StartsWith(str, prefix) ==
    /\ Len(prefix) <= Len(str)
    /\ SubSeq(str, 1, Len(prefix)) = prefix

----------------------------------------------------------------------------
(* The upstream's answers. *)

\* A response: the request raised (exc), or it came back with a status,
\* a text body (read on errors) and a JSON body (read on 200).
Response(exc, status, body, json) ==
    [exc |-> exc, status |-> status, body |-> body, json |-> json]

NetworkError == Response(TRUE, 0, <<>>, <<>>)

\* The statuses GitHub answers these GET requests with: 200, 403 (rate
\* limit, forbidden), 404 (no such organization, repository, folder or
\* file) and a server error.
Statuses == {200, 403, 404, 500}

\* The text bodies of error responses: "API rate limit exceeded" and
\* "Server Error".
Bodies ==
    {<<"A", "P", "I", " ", "r", "a", "t", "e", " ", "l", "i", "m", "i", "t", " ", "e", "x", "c", "e", "e", "d", "e", "d">>,
     <<"S", "e", "r", "v", "e", "r", " ", "E", "r", "r", "o", "r">>}

ErrorResponses ==
    {NetworkError} \cup
    {Response(FALSE, s, b, <<>>) : s \in Statuses \ {200}, b \in Bodies}

\* The "repository" objects of search items and the entries of
\* /orgs/{org}/repos: {id, name, description, html_url}.
Repo(id, name, description, url) ==
    [id |-> id, name |-> name, description |-> description, html_url |-> url]

\* Search items' repositories: the same name with two ids, a null
\* description, a missing id, a missing name.
SearchRepoPool ==
    { Repo(<<7>>,  <<"alpha">>, <<"first">>, <<"u/alpha">>),
      Repo(<<12>>, <<"alpha">>, <<>>,        <<"u/alpha2">>),
      Repo(<<>>,   <<"beta">>,  <<"">>,      <<>>),
      Repo(<<3>>,  <<>>,        <<"anon">>,  <<"u/anon">>) }

SearchResponses ==
    ErrorResponses \cup
    {Response(FALSE, 200, <<>>, [items |-> its]) :
        its \in SeqsUpTo({[repository |-> r] : r \in SearchRepoPool}, MaxItems)}

\* Entries of the organization's repository list: id, name and html_url
\* are always there (the code indexes them), description may be null.
EnumRepoPool ==
    { Repo(<<7>>,   <<"alpha">>, <<"first">>, <<"u/alpha">>),
      Repo(<<305>>, <<"beta">>,  <<>>,        <<"u/beta">>) }

\* A page of the enumeration: full while the upstream has more (at most
\* MaxPages full pages), short or empty otherwise.  One page never holds a
\* repository twice; a repository that is updated between two requests
\* moves to the front of the "sort=updated" order and can come again on a
\* later page.
EnumResponses(served) ==
    ErrorResponses \cup
    {Response(FALSE, 200, <<>>, p) :
        p \in {q \in SeqsUpTo(EnumRepoPool,
                              IF served < MaxPages THEN RESULTS_PER_PAGE
                              ELSE RESULTS_PER_PAGE - 1) :
                  \A i, j \in DOMAIN q : i # j => q[i] # q[j]}}

ProbeResponses ==
    {NetworkError} \cup {Response(FALSE, s, <<>>, <<>>) : s \in {200, 404, 500}}

\* An entry of a folder listing:
\* {type, name, path, sha, size, html_url, download_url}.  download_url is
\* there for files only.
DocItem(type, name, n) ==
    [type         |-> type,
     name         |-> name,
     path         |-> <<"d", "o", "c", "/">> \o name,
     sha          |-> <<"s", "h", "a">> \o Str(n),
     size         |-> 100 * n,
     html_url     |-> <<"h", "/">> \o name,
     download_url |-> IF type = "file" THEN << <<"r", "/">> \o name >> ELSE <<>>]

\* Files of every supported extension in both cases, files the filter
\* must drop, directories and a symlink.
DocItemPool ==
    { DocItem("file", <<"R", "E", "A", "D", "M", "E", ".", "m", "d">>, 1),
      DocItem("file", <<"G", "u", "i", "d", "e", ".", "M", "D">>, 2),
      DocItem("file", <<"f", "l", "o", "w", ".", "m", "m", "d">>, 3),
      DocItem("file", <<"s", "e", "q", ".", "M", "e", "r", "m", "a", "i", "d">>, 4),
      DocItem("file", <<"l", "o", "g", "o", ".", "s", "v", "g">>, 5),
      DocItem("file", <<"a", "p", "i", ".", "y", "m", "l">>, 6),
      DocItem("file", <<"a", "p", "i", ".", "Y", "A", "M", "L">>, 7),
      DocItem("file", <<"p", "o", "s", "t", "m", "a", "n", "_", "c", ".", "j", "s", "o", "n">>, 8),
      DocItem("file", <<"P", "o", "s", "t", "m", "a", "n", ".", "J", "S", "O", "N">>, 9),
      DocItem("file", <<"s", "c", "h", "e", "m", "a", ".", "j", "s", "o", "n">>, 10),
      DocItem("file", <<"n", "o", "t", "e", "s", ".", "t", "x", "t">>, 11),
      DocItem("file", <<"m", "d">>, 12),
      DocItem("file", <<"x", ".", "m", "d", ".", "b", "a", "k">>, 14),
      DocItem("dir", <<"o", "l", "d", ".", "m", "d">>, 22),
      DocItem("symlink", <<"l", "i", "n", "k", ".", "m", "d">>, 23) }

DocsResponses ==
    ErrorResponses \cup
    {Response(FALSE, 200, <<>>, contents) :
        contents \in SeqsUpTo(DocItemPool, MaxEntries)}

----------------------------------------------------------------------------
(* Requests and their headers. *)

\* What the environment can hold under GITHUB_TOKEN when main.py is
\* imported: nothing, the empty string, a token.
Environments ==
    {<<>>, << <<>> >>, << <<"g", "h", "p", "_", "1">> >>}

\* os.getenv(key, default)
os_getenv(env, default) == IF env = <<>> THEN default ELSE env[1]

\* GITHUB_TOKEN = os.getenv("GITHUB_TOKEN", "random")
GITHUB_TOKEN == os_getenv(environ, <<"r", "a", "n", "d", "o", "m">>)

\* create_headers(): Accept and User-Agent, and Authorization when
\* GITHUB_TOKEN is truthy, which a non-empty string is.
create_headers ==
    [Accept        |-> "application/vnd.github.v3+json",
     User_Agent    |-> <<"G", "i", "t", "H", "u", "b", "-", "M", "C", "P", "-",
                         "S", "e", "r", "v", "e", "r", "/", "1", ".", "0">>,
     Authorization |-> IF GITHUB_TOKEN # <<>>
                       THEN << <<"t", "o", "k", "e", "n", " ">> \o GITHUB_TOKEN >>
                       ELSE <<>>]

\* session.get(url, headers=headers, ...)
Request(kind, pg, repo) ==
    [kind |-> kind, page |-> pg, repo |-> repo, headers |-> create_headers]

SearchRequest == Request("search", 0, "")
EnumRequest(pg) == Request("enum", pg, "")
ProbeRequest(repo) == Request("probe", 0, repo)
DocsRequest == Request("docs", 0, "")

----------------------------------------------------------------------------
(* The session of a call. *)

\* Mutant of SessionAfter: the session is closed before a return and left
\* open by a raise.
SessionAfter_leakOnRaise(pcNext, outcomeNext) ==
    IF pcNext = "done" /\ outcomeNext = "returned" THEN "closed" ELSE "open"

\* "async with aiohttp.ClientSession() as session": the session is open
\* while the call is inside the block and closed when the call leaves it,
\* by a return or by an exception.
SessionAfter(pcNext, outcomeNext) ==
    IF pcNext = "done" THEN "closed" ELSE "open"

\* What a step of a call does to its session: the first step enters the
\* "async with" block and opens the session; every step makes its request
\* on that session (check_doc_folder is handed it); the step that leaves
\* the block closes it.
Session ==
    /\ opened' = IF session = "none" THEN opened + 1 ELSE opened
    /\ session' = SessionAfter(pc', outcome')

----------------------------------------------------------------------------
(* get_org_repos and check_doc_folder. *)

\* Mutant of check_doc_folder: everything but "not found" counts as found.
check_doc_folder_not404(resp) ==
    IF resp.exc THEN FALSE ELSE resp.status # 404

\* check_doc_folder: response.status == 200, False on any exception.
check_doc_folder(resp) ==
    IF resp.exc THEN FALSE ELSE resp.status = 200

\* The summary built from a search item's repository.
SearchSummary(repo_info) ==
    [id           |-> StrOpt(repo_info.id),
     name         |-> repo_info.name[1],
     description  |-> OrEmpty(repo_info.description),
     url          |-> Get(repo_info.html_url, ""),
     hasDocFolder |-> TRUE]

\* Mutant of AddSearchItem: no "not in repos_with_docs" test and the
\* dict assignment overwrites, so the last item of a name wins.
AddSearchItem_lastWins(repos_with_docs, item) ==
    LET repo_info == item.repository
        repo_name == repo_info.name
    IN  IF repo_name = <<>> \/ repo_name = <<"">> THEN repos_with_docs
        ELSE IF \E i \in DOMAIN repos_with_docs :
                    repos_with_docs[i].name = repo_name[1]
        THEN [i \in DOMAIN repos_with_docs |->
                IF repos_with_docs[i].name = repo_name[1]
                THEN SearchSummary(repo_info) ELSE repos_with_docs[i]]
        ELSE Append(repos_with_docs, SearchSummary(repo_info))

\* Mutant of AddSearchItem: a list instead of a dict, every named item
\* is appended.
AddSearchItem_noDedup(repos_with_docs, item) ==
    LET repo_info == item.repository
        repo_name == repo_info.name
    IN  IF repo_name # <<>> /\ repo_name # <<"">>
        THEN Append(repos_with_docs, SearchSummary(repo_info))
        ELSE repos_with_docs

\* One iteration of the loop over the items: repos_with_docs is a dict in
\* insertion order, here the sequence of its values.
AddSearchItem(repos_with_docs, item) ==
    LET repo_info == item.repository
        repo_name == repo_info.name
    IN  IF repo_name # <<>> /\ repo_name # <<"">>
           /\ \A i \in DOMAIN repos_with_docs :
                 repos_with_docs[i].name # repo_name[1]
        THEN Append(repos_with_docs, SearchSummary(repo_info))
        ELSE repos_with_docs

\* The loop over data.get("items", []), then list(repos_with_docs.values()).
RECURSIVE SearchRepos(_, _)
SearchRepos(repos_with_docs, items) ==
    IF items = <<>> THEN repos_with_docs
    ELSE SearchRepos(AddSearchItem(repos_with_docs, Head(items)), Tail(items))

\* Mutant of SearchOk: an empty search result falls through to the
\* enumeration.
SearchOk_nonEmpty(resp) ==
    ~resp.exc /\ resp.status = 200 /\ resp.json.items # <<>>

\* Whether the search response takes the first strategy.
SearchOk(resp) == ~resp.exc /\ resp.status = 200

\* return list(repos_with_docs.values()) inside "if response.status == 200".
SearchReturn(resp) ==
    /\ result' = SearchRepos(<<>>, resp.json.items)
    /\ outcome' = "returned"
    /\ pc' = "done"
    /\ UNCHANGED <<all_repos, page, error>>

\* Mutant of SearchFallback: the failure of the search is raised, as
\* the other operations do with theirs.
SearchFallback_raise(resp) ==
    /\ error' = <<[kind   |-> IF resp.exc THEN "network" ELSE "upstream",
                   status |-> resp.status, body |-> resp.body]>>
    /\ outcome' = "raised"
    /\ pc' = "done"
    /\ UNCHANGED <<all_repos, page, result>>

\* The search did not answer 200: the status is not looked at again, an
\* exception is caught and logged, and the fallback starts.
SearchFallback(resp) ==
    /\ all_repos' = <<>>
    /\ page' = 1
    /\ pc' = "enum"
    /\ UNCHANGED <<result, outcome, error>>

\* The search request and what follows it.
Search ==
    /\ op = "get_org_repos"
    /\ pc = "search"
    /\ \E resp \in SearchResponses :
        /\ requests' = Append(requests, SearchRequest)
        /\ searchResp' = <<resp>>
        /\ IF SearchOk(resp) THEN SearchReturn(resp) ELSE SearchFallback(resp)
    /\ UNCHANGED <<op, arg, enumResps, probes, response>>
    /\ Session
    /\ UNCHANGED <<environ, parked, running, clientVars, showcaseVars>>

\* The error raised for a response that is not a 200: the exception of the
\* request itself, or Exception("GitHub API error {status}: {error_text}").
UpstreamError(resp) ==
    IF resp.exc THEN [kind |-> "network", status |-> 0, body |-> <<>>]
    ELSE [kind |-> "upstream", status |-> resp.status, body |-> resp.body]

\* Mutant of EnumFailed: a 404 counts as an empty page, as it does for
\* the folder listing.
EnumFailed_404empty(resp) == resp.exc \/ resp.status \notin {200, 404}

\* Mutant of EnumFailed: an exception of the request is caught and the page
\* counts as empty.
EnumFailed_statusOnly(resp) == ~resp.exc /\ resp.status # 200

\* Whether the enumeration request makes the call raise: the request
\* raised (nothing catches it), or response.status != 200.
EnumFailed(resp) == resp.exc \/ resp.status # 200

\* Mutant of MorePages: no short-page test, only an empty page stops.
MorePages_untilEmpty(repos) == repos # <<>>

\* Whether the loop goes on after a page of repos.
MorePages(repos) == repos # <<>> /\ ~(Len(repos) < RESULTS_PER_PAGE)

\* Mutant of NextPage: the same page is asked for again.
NextPage_same(pg, repos) == pg

\* page after a page of repos: the empty page breaks before page += 1.
NextPage(pg, repos) == IF repos = <<>> THEN pg ELSE pg + 1

\* One iteration of "while True": request page `page`; raise on an
\* exception or a status other than 200; stop on an empty page; else
\* extend all_repos, count the page, and stop on a short page.
Enumerate ==
    /\ op = "get_org_repos"
    /\ pc = "enum"
    /\ \E resp \in EnumResponses(Len(enumResps)) :
        /\ requests' = Append(requests, EnumRequest(page))
        /\ enumResps' = Append(enumResps, resp)
        /\ IF EnumFailed(resp)
           THEN /\ error' = <<UpstreamError(resp)>>
                /\ outcome' = "raised"
                /\ pc' = "done"
                /\ UNCHANGED <<all_repos, page, result>>
           ELSE LET repos == resp.json IN
                /\ all_repos' = all_repos \o repos
                /\ page' = NextPage(page, repos)
                /\ pc' = IF MorePages(repos) THEN "enum" ELSE "probe"
                /\ result' = <<>>   \* result = [] once the loop is left
                /\ UNCHANGED <<outcome, error>>
    /\ UNCHANGED <<op, arg, searchResp, probes, response>>
    /\ Session
    /\ UNCHANGED <<environ, parked, running, clientVars, showcaseVars>>

\* Mutant of EnumSummary: hasDocFolder copied from the search strategy.
EnumSummary_alwaysTrue(repo, has_doc) ==
    [id           |-> Str(repo.id[1]),
     name         |-> repo.name[1],
     description  |-> OrEmpty(repo.description),
     url          |-> repo.html_url[1],
     hasDocFolder |-> TRUE]

\* The summary built from an enumerated repository and its probe.
EnumSummary(repo, has_doc) ==
    [id           |-> Str(repo.id[1]),
     name         |-> repo.name[1],
     description  |-> OrEmpty(repo.description),
     url          |-> repo.html_url[1],
     hasDocFolder |-> has_doc]

\* Mutant of Probe: the loop runs over all_repos from its end.
Probe_fromTheEnd ==
    /\ op = "get_org_repos"
    /\ pc = "probe"
    /\ Len(result) < Len(all_repos)
    /\ LET repo == all_repos[Len(all_repos) - Len(result)] IN
       \E resp \in ProbeResponses :
        /\ requests' = Append(requests, ProbeRequest(repo.name[1]))
        /\ probes' = Append(probes, resp)
        /\ result' = Append(result, EnumSummary(repo, check_doc_folder(resp)))
    /\ UNCHANGED <<op, arg, pc, searchResp, enumResps, all_repos, page, response,
                   outcome, error>>
    /\ Session
    /\ UNCHANGED <<environ, parked, running, clientVars, showcaseVars>>

\* One iteration of the loop over all_repos: probe the next repository and
\* append its summary.
Probe ==
    /\ op = "get_org_repos"
    /\ pc = "probe"
    /\ Len(result) < Len(all_repos)
    /\ LET repo == all_repos[Len(result) + 1] IN
       \E resp \in ProbeResponses :
        /\ requests' = Append(requests, ProbeRequest(repo.name[1]))
        /\ probes' = Append(probes, resp)
        /\ result' = Append(result, EnumSummary(repo, check_doc_folder(resp)))
    /\ UNCHANGED <<op, arg, pc, searchResp, enumResps, all_repos, page, response,
                   outcome, error>>
    /\ Session
    /\ UNCHANGED <<environ, parked, running, clientVars, showcaseVars>>

\* The loop over all_repos is over: return result.
FallbackReturn ==
    /\ op = "get_org_repos"
    /\ pc = "probe"
    /\ Len(result) = Len(all_repos)
    /\ outcome' = "returned"
    /\ pc' = "done"
    /\ UNCHANGED <<op, arg, requests, searchResp, enumResps, all_repos, page, probes,
                   response, result, error>>
    /\ Session
    /\ UNCHANGED <<environ, parked, running, clientVars, showcaseVars>>

----------------------------------------------------------------------------
(* determine_content_type and get_repo_docs. *)

\* The filenames determine_content_type is called with: every stem with
\* every ending, the names of the repository's own test, and names with
\* the characters long s (U+017F), dotless i (U+0131) and sharp s (U+00DF),
\* each written as one element named by its code point.
Stems ==
    {<<>>,
     <<"a">>,
     <<"p", "o", "s", "t", "m", "a", "n">>,
     <<"P", "o", "s", "t", "m", "a", "n", "_", "c">>,
     <<"P", "O", "S", "T", "M", "A", "N">>,
     <<"m", "y", "_", "p", "o", "s", "t", "m", "a", "n">>,
     <<"x", ".", "m", "d">>,
     <<"a", ".", "j", "s", "o", "n">>}

Endings ==
    {<<".", "m", "d">>,
     <<".", "M", "D">>,
     <<".", "m", "m", "d">>,
     <<".", "M", "e", "r", "m", "a", "i", "d">>,
     <<".", "s", "v", "g">>,
     <<".", "S", "V", "G">>,
     <<".", "y", "m", "l">>,
     <<".", "y", "a", "m", "l">>,
     <<".", "Y", "A", "M", "L">>,
     <<".", "j", "s", "o", "n">>,
     <<".", "J", "S", "O", "N">>,
     <<".", "t", "x", "t">>,
     <<>>,
     <<"m", "d">>,
     <<".", "m", "d", "x">>,
     <<".", "j", "s", "o">>}

TestNames ==
    {<<"R", "E", "A", "D", "M", "E", ".", "m", "d">>,
     <<"d", "i", "a", "g", "r", "a", "m", ".", "m", "m", "d">>,
     <<"d", "i", "a", "g", "r", "a", "m", ".", "m", "e", "r", "m", "a", "i", "d">>,
     <<"i", "m", "a", "g", "e", ".", "s", "v", "g">>,
     <<"a", "p", "i", ".", "y", "m", "l">>,
     <<"a", "p", "i", ".", "y", "a", "m", "l">>,
     <<"p", "o", "s", "t", "m", "a", "n", "_", "c", "o", "l", "l", "e", "c", "t", "i", "o", "n", ".", "j", "s", "o", "n">>,
     <<"s", "c", "h", "e", "m", "a", ".", "j", "s", "o", "n">>,
     <<"u", "n", "k", "n", "o", "w", "n", ".", "t", "x", "t">>}

UnicodeNames ==
    {<<"x", ".", "U+017F", "v", "g">>,
     <<"a", ".", "m", "e", "r", "m", "a", "U+0131", "d">>,
     <<"p", "o", "U+017F", "t", "m", "a", "n", ".", "j", "s", "o", "n">>,
     <<"U+00DF", ".", "m", "d">>,
     <<"a", ".", "j", "U+017F", "o", "n">>}

Filenames ==
    {stem \o ending : stem \in Stems, ending \in Endings}
        \cup TestNames \cup UnicodeNames

\* Mutant of determine_content_type: the rule for .json comes before the
\* rule for postman.
determine_content_type_jsonFirst(filename) ==
    LET lower_name == Lower(filename) IN
    IF EndsWith(lower_name, <<".", "m", "m", "d">>) \/ EndsWith(lower_name, <<".", "m", "e", "r", "m", "a", "i", "d">>)
    THEN "mermaid"
    ELSE IF EndsWith(lower_name, <<".", "m", "d">>) THEN "markdown"
    ELSE IF EndsWith(lower_name, <<".", "s", "v", "g">>) THEN "svg"
    ELSE IF EndsWith(lower_name, <<".", "y", "m", "l">>) \/ EndsWith(lower_name, <<".", "y", "a", "m", "l">>)
    THEN "openapi"
    ELSE IF EndsWith(lower_name, <<".", "j", "s", "o", "n">>) THEN "openapi"
    ELSE IF StartsWith(lower_name, <<"p", "o", "s", "t", "m", "a", "n">>) THEN "postman"
    ELSE "unknown"

determine_content_type(filename) ==
    LET lower_name == Lower(filename) IN
    IF EndsWith(lower_name, <<".", "m", "m", "d">>) \/ EndsWith(lower_name, <<".", "m", "e", "r", "m", "a", "i", "d">>)
    THEN "mermaid"
    ELSE IF EndsWith(lower_name, <<".", "m", "d">>) THEN "markdown"
    ELSE IF EndsWith(lower_name, <<".", "s", "v", "g">>) THEN "svg"
    ELSE IF EndsWith(lower_name, <<".", "y", "m", "l">>) \/ EndsWith(lower_name, <<".", "y", "a", "m", "l">>)
    THEN "openapi"
    ELSE IF EndsWith(lower_name, <<".", "j", "s", "o", "n">>)
    THEN IF StartsWith(lower_name, <<"p", "o", "s", "t", "m", "a", "n">>) THEN "postman" ELSE "openapi"
    ELSE "unknown"

\* Mutant of supported_extensions: the filter also lets .txt through.
supported_extensions_withTxt ==
    << <<".", "m", "d">>,
       <<".", "m", "m", "d">>,
       <<".", "m", "e", "r", "m", "a", "i", "d">>,
       <<".", "s", "v", "g">>,
       <<".", "y", "m", "l">>,
       <<".", "y", "a", "m", "l">>,
       <<".", "j", "s", "o", "n">>,
       <<".", "t", "x", "t">> >>

supported_extensions ==
    << <<".", "m", "d">>,
       <<".", "m", "m", "d">>,
       <<".", "m", "e", "r", "m", "a", "i", "d">>,
       <<".", "s", "v", "g">>,
       <<".", "y", "m", "l">>,
       <<".", "y", "a", "m", "l">>,
       <<".", "j", "s", "o", "n">> >>

\* Mutant of Supported: no lower(), the extension is matched as written.
Supported_caseSensitive(name) ==
    \E i \in DOMAIN supported_extensions :
        EndsWith(name, supported_extensions[i])

\* any(name.lower().endswith(ext) for ext in supported_extensions)
Supported(name) ==
    \E i \in DOMAIN supported_extensions :
        EndsWith(Lower(name), supported_extensions[i])

\* The dictionary appended to docs for a retained entry.
DocumentFile(item) ==
    [id           |-> item.sha,
     name         |-> item.name,
     path         |-> item.path,
     type         |-> determine_content_type(item.name),
     url          |-> item.html_url,
     download_url |-> Get(item.download_url, <<>>)]

\* The loop over contents: files of a supported extension are appended,
\* other files are counted as skipped, other entries are passed over.
RECURSIVE Docs(_, _)
Docs(docs, contents) ==
    IF contents = <<>> THEN docs
    ELSE LET item == Head(contents) IN
         IF item.type = "file" /\ Supported(item.name)
         THEN Docs(Append(docs, DocumentFile(item)), Tail(contents))
         ELSE Docs(docs, Tail(contents))

\* The keys documentation_resource reads from every dictionary of the list
\* get_repo_docs returned: doc['name'], doc['type'], doc['size'] and
\* doc['path'].  A key that is not there raises KeyError.
documentation_resource_reads == {"name", "type", "size", "path"}

\* Mutant of DocsNotFound: every status but 200 gives the empty list.
DocsNotFound_anyFailure(resp) == resp.status # 200

\* response.status == 404: return [].
DocsNotFound(resp) == resp.status = 404

\* get_repo_docs: its request and everything after it.  An exception of
\* the request propagates; 404 returns []; another status than 200 raises;
\* 200 returns the filtered listing.
GetRepoDocs ==
    /\ op = "get_repo_docs"
    /\ pc = "request"
    /\ \E resp \in DocsResponses :
        /\ requests' = Append(requests, DocsRequest)
        /\ response' = <<resp>>
        /\ pc' = "done"
        /\ IF resp.exc
           THEN /\ error' = <<UpstreamError(resp)>>
                /\ outcome' = "raised"
                /\ UNCHANGED result
           ELSE IF DocsNotFound(resp)
           THEN /\ result' = <<>>
                /\ outcome' = "returned"
                /\ UNCHANGED error
           ELSE IF resp.status # 200
           THEN /\ error' = <<UpstreamError(resp)>>
                /\ outcome' = "raised"
                /\ UNCHANGED result
           ELSE /\ result' = Docs(<<>>, resp.json)
                /\ outcome' = "returned"
                /\ UNCHANGED error
    /\ UNCHANGED <<op, arg, searchResp, enumResps, all_repos, page, probes>>
    /\ Session
    /\ UNCHANGED <<environ, parked, running, clientVars, showcaseVars>>

----------------------------------------------------------------------------
(* The text of a file.  A str of the program is a sequence of code points  *)
(* and a bytes object is a sequence of numbers in 0..255, so that base64   *)
(* and UTF-8 are computed and not assumed.                                  *)

\* The texts of the model have at most this many characters.
MaxTextLen == 2

\* The upstream breaks a base64 string with at most this many newlines.
MaxNewlines == 2

\* The characters of the texts: "h", e-acute, the euro sign and an emoji,
\* of 1, 2, 3 and 4 bytes in UTF-8.
CodePoints == {104, 233, 8364, 128512}

Texts == SeqsUpTo(CodePoints, MaxTextLen)

\* str.encode('utf-8') of one code point, as the upstream stores it.
Utf8Char(cp) ==
    IF cp < 128 THEN <<cp>>
    ELSE IF cp < 2048 THEN <<192 + (cp \div 64), 128 + (cp % 64)>>
    ELSE IF cp < 65536
    THEN <<224 + (cp \div 4096), 128 + ((cp \div 64) % 64), 128 + (cp % 64)>>
    ELSE <<240 + (cp \div 262144), 128 + ((cp \div 4096) % 64),
           128 + ((cp \div 64) % 64), 128 + (cp % 64)>>

RECURSIVE Utf8Encode(_)
Utf8Encode(text) ==
    IF text = <<>> THEN <<>>
    ELSE Utf8Char(Head(text)) \o Utf8Encode(Tail(text))

\* The base64 character (code point) of a 6-bit value: A-Z a-z 0-9 + /
table_b2a_base64(v) ==
    IF v < 26 THEN 65 + v
    ELSE IF v < 52 THEN 71 + v
    ELSE IF v < 62 THEN v - 4
    ELSE IF v = 62 THEN 43 ELSE 47

\* Standard base64 with "=" padding (61), as the upstream encodes a file.
RECURSIVE B64Encode(_)
B64Encode(bytes) ==
    IF bytes = <<>> THEN <<>>
    ELSE IF Len(bytes) = 1
    THEN <<table_b2a_base64(bytes[1] \div 4),
           table_b2a_base64((bytes[1] % 4) * 16), 61, 61>>
    ELSE IF Len(bytes) = 2
    THEN <<table_b2a_base64(bytes[1] \div 4),
           table_b2a_base64(((bytes[1] % 4) * 16) + (bytes[2] \div 16)),
           table_b2a_base64((bytes[2] % 16) * 4), 61>>
    ELSE <<table_b2a_base64(bytes[1] \div 4),
           table_b2a_base64(((bytes[1] % 4) * 16) + (bytes[2] \div 16)),
           table_b2a_base64(((bytes[2] % 16) * 4) + (bytes[3] \div 64)),
           table_b2a_base64(bytes[3] % 64)>>
         \o B64Encode(SubSeq(bytes, 4, Len(bytes)))

\* str broken by a newline (10) after each of its first i characters for
\* i in cuts (0 is the front, Len(str) the end), from position i on.
RECURSIVE Broken(_, _, _)
Broken(str, cuts, i) ==
    IF i > Len(str) THEN <<>>
    ELSE (IF i > 0 THEN <<str[i]>> ELSE <<>>)
         \o (IF i \in cuts THEN <<10>> ELSE <<>>)
         \o Broken(str, cuts, i + 1)

\* The sets of at most k positions in 0..n.
CutSets(n, k) == {{f[i] : i \in DOMAIN f} : f \in SeqsUpTo(0..n, k)}

\* The "content" strings of well-encoded files: the base64 of the UTF-8 of
\* a text, broken by newlines at any positions.
EncodedContents ==
    UNION {{Broken(B64Encode(Utf8Encode(t)), cuts, 0) :
               cuts \in CutSets(Len(B64Encode(Utf8Encode(t))), MaxNewlines)} :
           t \in Texts}

\* str.replace('\n', '')
RemoveNewlines(str) == SelectSeq(str, LAMBDA c : c # 10)

\* binascii's table_a2b_base64: the 6-bit value of a base64 character, -1
\* for every other character.
table_a2b_base64(c) ==
    IF c \in 65..90 THEN c - 65
    ELSE IF c \in 97..122 THEN c - 71
    ELSE IF c \in 48..57 THEN c + 4
    ELSE IF c = 43 THEN 62
    ELSE IF c = 47 THEN 63
    ELSE -1

\* binascii.a2b_base64 without strict mode, which base64.b64decode calls:
\* characters outside the alphabet are skipped; a "=" ends the input once
\* it completes a group of four that holds at least two characters, and is
\* skipped otherwise; input that ends inside a group raises.
RECURSIVE a2b_base64(_, _, _, _, _)
a2b_base64(ascii, quad_pos, leftchar, pads, bin) ==
    IF ascii = <<>>
    THEN IF quad_pos # 0 THEN [ok |-> FALSE, bytes |-> <<>>]
         ELSE [ok |-> TRUE, bytes |-> bin]
    ELSE LET this_ch == table_a2b_base64(Head(ascii))
             rest == Tail(ascii)
         IN  IF Head(ascii) = 61
             THEN IF quad_pos >= 2 /\ quad_pos + pads + 1 >= 4
                  THEN [ok |-> TRUE, bytes |-> bin]
                  ELSE a2b_base64(rest, quad_pos, leftchar,
                                  IF quad_pos >= 2 THEN pads + 1 ELSE pads, bin)
             ELSE IF this_ch = -1
             THEN a2b_base64(rest, quad_pos, leftchar, pads, bin)
             ELSE IF quad_pos = 0
             THEN a2b_base64(rest, 1, this_ch, 0, bin)
             ELSE IF quad_pos = 1
             THEN a2b_base64(rest, 2, this_ch % 16, 0,
                             Append(bin, (leftchar * 4) + (this_ch \div 16)))
             ELSE IF quad_pos = 2
             THEN a2b_base64(rest, 3, this_ch % 4, 0,
                             Append(bin, (leftchar * 16) + (this_ch \div 4)))
             ELSE a2b_base64(rest, 0, 0, 0, Append(bin, (leftchar * 64) + this_ch))

\* base64.b64decode(s) for a str s: s must be ASCII, then a2b_base64.
b64decode(s) ==
    IF \E i \in DOMAIN s : s[i] > 127 THEN [ok |-> FALSE, bytes |-> <<>>]
    ELSE a2b_base64(s, 0, 0, 0, <<>>)

\* A continuation byte of UTF-8.
Continuation(b) == b \in 128..191

\* Mutant of utf8_decode: every byte is one character (latin-1).
utf8_decode_latin1(bytes, text) == [ok |-> TRUE, text |-> text \o bytes]

\* bytes.decode('utf-8'), strict: the code points of well-formed UTF-8;
\* an invalid, overlong, surrogate or truncated sequence raises.
RECURSIVE utf8_decode(_, _)
utf8_decode(bytes, text) ==
    IF bytes = <<>> THEN [ok |-> TRUE, text |-> text]
    ELSE LET b == bytes
             n == Len(bytes)
             bad == [ok |-> FALSE, text |-> <<>>]
         IN  IF b[1] < 128
             THEN utf8_decode(Tail(b), Append(text, b[1]))
             ELSE IF b[1] \in 194..223
             THEN IF n >= 2 /\ Continuation(b[2])
                  THEN utf8_decode(SubSeq(b, 3, n),
                                   Append(text, ((b[1] - 192) * 64) + (b[2] - 128)))
                  ELSE bad
             ELSE IF b[1] \in 224..239
             THEN IF /\ n >= 3 /\ Continuation(b[2]) /\ Continuation(b[3])
                     /\ (b[1] = 224 => b[2] >= 160)
                     /\ (b[1] = 237 => b[2] <= 159)
                  THEN utf8_decode(SubSeq(b, 4, n),
                                   Append(text, ((b[1] - 224) * 4096)
                                                + ((b[2] - 128) * 64) + (b[3] - 128)))
                  ELSE bad
             ELSE IF b[1] \in 240..244
             THEN IF /\ n >= 4 /\ Continuation(b[2]) /\ Continuation(b[3])
                     /\ Continuation(b[4])
                     /\ (b[1] = 240 => b[2] >= 144)
                     /\ (b[1] = 244 => b[2] <= 143)
                  THEN utf8_decode(SubSeq(b, 5, n),
                                   Append(text, ((b[1] - 240) * 262144)
                                                + ((b[2] - 128) * 4096)
                                                + ((b[3] - 128) * 64) + (b[4] - 128)))
                  ELSE bad
             ELSE bad

\* The try block: base64.b64decode(data["content"].replace('\n', ''))
\* .decode('utf-8').  ok is FALSE when either step raises.
Decode(str) ==
    LET decoded == b64decode(RemoveNewlines(str)) IN
    IF ~decoded.ok THEN [ok |-> FALSE, text |-> <<>>]
    ELSE utf8_decode(decoded.bytes, <<>>)

\* Mutant of Content: a decoding that raised leaves content = "".
Content_noFallback(opt) ==
    IF opt = <<>> \/ opt = << <<>> >> THEN <<>>
    ELSE IF Decode(opt[1]).ok THEN Decode(opt[1]).text
    ELSE <<>>

\* content of the returned dictionary: "" when "content" is absent, null
\* or empty; the decoded text; the upstream string as it came when the
\* decoding raised.
Content(opt) ==
    IF opt = <<>> \/ opt = << <<>> >> THEN <<>>
    ELSE IF Decode(opt[1]).ok THEN Decode(opt[1]).text
    ELSE opt[1]

----------------------------------------------------------------------------
(* get_file_content. *)

\* "aGVsbG8=" and a newline: the base64 of "hello" as the upstream sends it.
ExampleContent == <<97, 71, 86, 115, 98, 71, 56, 61, 10>>

\* Byte strings that are not UTF-8: the byte 255, a truncated euro sign, a
\* continuation byte with no lead, an overlong NUL, a surrogate and a code
\* point above U+10FFFF.
InvalidUtf8 ==
    {<<255>>, <<226, 130>>, <<104, 128>>, <<192, 128>>, <<237, 160, 128>>,
     <<244, 144, 128, 128>>}

\* Content strings that are not the base64 of a text.
OtherContents ==
    {Broken(B64Encode(b), cuts, 0) :
        b \in InvalidUtf8, cuts \in {{}, {2}, {4}}} \cup
    {
      <<97, 71, 86, 115, 98, 71, 56>>,   \* aGVsbG8: no padding: b64decode raises
      <<97>>,   \* a: one character: b64decode raises
      <<97, 71, 61, 107>>,   \* aG=k: padding inside a group: b64decode raises
      <<97, 71, 107, 233>>,   \* aGk + e-acute: a character that is not ASCII: b64decode raises
      <<97, 71, 86, 115, 33, 98, 71, 56, 61>>,   \* aGVs!bG8=: a character outside the alphabet
      <<97, 71, 107, 61, 97, 71, 107, 61>>,   \* aGk=aGk=: padding in the middle
      <<61, 97, 71, 107, 61>>,   \* =aGk=: padding at the front
      <<97, 71, 108, 61>>    \* aGl=: non-zero bits under the padding
    }

\* The JSON of a file: {name, path, sha, size, content, encoding}.  content
\* and encoding are optional; the responses have every content with an
\* encoding and two of them with none.
File(path, content, encoding) ==
    [name     |-> SubSeq(path, 5, Len(path)),
     path     |-> path,
     sha      |-> <<"s", "h", "a", "9">>,
     size     |-> 900,
     content  |-> content,
     encoding |-> encoding]

FileResponses(path) ==
    ErrorResponses \cup
    {Response(FALSE, 200, <<>>, File(path, content, <<"base64">>)) :
        content \in {<<>>, << <<>> >>}
                    \cup {<<c>> : c \in EncodedContents \cup {ExampleContent}
                                        \cup OtherContents}} \cup
    {Response(FALSE, 200, <<>>, File(path, content, <<>>)) :
        content \in {<<>>, <<ExampleContent>>}}

FileRequest(path) ==
    [kind |-> "content", page |-> 0, repo |-> "", path |-> path,
     headers |-> create_headers]

\* Exception(f"File not found: {path}")
FileNotFound(path) == [kind |-> "file_not_found", path |-> path]

\* The dictionary get_file_content returns.
FileContent(data) ==
    [name     |-> data.name,
     path     |-> data.path,
     content  |-> Content(data.content),
     encoding |-> Get(data.encoding, "base64")]

\* Mutant of FileMissing: a 404 is raised as every other status is.
FileMissing_never(resp) == FALSE

\* response.status == 404
FileMissing(resp) == resp.status = 404

\* get_file_content: its request and everything after it.  An exception of
\* the request propagates; 404 raises "File not found"; another status
\* than 200 raises the upstream error; 200 returns the dictionary.
GetFileContent ==
    /\ op = "get_file_content"
    /\ pc = "request"
    /\ \E resp \in FileResponses(arg) :
        /\ requests' = Append(requests, FileRequest(arg))
        /\ response' = <<resp>>
        /\ pc' = "done"
        /\ IF resp.exc
           THEN /\ error' = <<UpstreamError(resp)>>
                /\ outcome' = "raised"
                /\ UNCHANGED result
           ELSE IF FileMissing(resp)
           THEN /\ error' = <<FileNotFound(arg)>>
                /\ outcome' = "raised"
                /\ UNCHANGED result
           ELSE IF resp.status # 200
           THEN /\ error' = <<UpstreamError(resp)>>
                /\ outcome' = "raised"
                /\ UNCHANGED result
           ELSE /\ result' = FileContent(resp.json)
                /\ outcome' = "returned"
                /\ UNCHANGED error
    /\ UNCHANGED <<op, arg, searchResp, enumResps, all_repos, page, probes>>
    /\ Session
    /\ UNCHANGED <<environ, parked, running, clientVars, showcaseVars>>

----------------------------------------------------------------------------
(* search_documentation. *)

\* An item of a code search: {name, path, sha, html_url, repository}.
CodeItem(name, path, repository) ==
    [name       |-> name,
     path       |-> path,
     sha        |-> "sha-" \o name,
     html_url   |-> "https://github.com/" \o path,
     repository |-> repository]

\* Two files of one repository, a file of another, an item with no
\* repository and an item whose repository has no name.
CodeItemPool ==
    { CodeItem("README.md", "alpha/doc/README.md", <<[name |-> <<"alpha">>]>>),
      CodeItem("guide.md",  "alpha/doc/guide.md",  <<[name |-> <<"alpha">>]>>),
      CodeItem("README.md", "beta/doc/README.md",  <<[name |-> <<"beta">>]>>),
      CodeItem("api.yml",   "doc/api.yml",         <<>>),
      CodeItem("flow.mmd",  "doc/flow.mmd",        <<[name |-> <<>>]>>) }

\* The answers to the code search: a failure, or a 200 with up to MaxItems
\* items, the same item more than once included.
CodeSearchResponses ==
    ErrorResponses \cup
    {Response(FALSE, 200, <<>>, [items |-> its]) :
        its \in SeqsUpTo(CodeItemPool, MaxItems)}

CodeSearchRequest == Request("search_code", 0, "")

\* Exception("Search API rate limit exceeded. Try again later.")
RateLimitError == [kind |-> "rate_limited"]

\* str(e) of the errors the operations raise.  The exception of a request
\* that failed on the network is aiohttp's, with aiohttp's text.
ErrorMessage(e) ==
    IF e.kind = "rate_limited"
    THEN <<"S", "e", "a", "r", "c", "h", " ", "A", "P", "I", " ", "r", "a", "t", "e", " ", "l", "i", "m", "i", "t", " ", "e", "x", "c", "e", "e", "d", "e", "d", ".", " ", "T", "r", "y", " ", "a", "g", "a", "i", "n", " ", "l", "a", "t", "e", "r", ".">>
    ELSE IF e.kind = "file_not_found"
    THEN <<"F", "i", "l", "e", " ", "n", "o", "t", " ", "f", "o", "u", "n", "d", ":", " ">> \o e.path
    ELSE IF e.kind = "upstream"
    THEN <<"G", "i", "t", "H", "u", "b", " ", "A", "P", "I", " ", "e", "r", "r", "o", "r", " ">> \o Str(e.status) \o <<":", " ">> \o e.body
    ELSE <<"C", "a", "n", "n", "o", "t", " ", "c", "o", "n", "n", "e", "c", "t", " ", "t", "o", " ", "h", "o", "s", "t", " ", "a", "p", "i", ".", "g", "i", "t", "h", "u", "b", ".", "c", "o", "m">>

\* sub in str
Contains(str, sub) ==
    \E i \in 1..(Len(str) - Len(sub) + 1) :
        SubSeq(str, i, i + Len(sub) - 1) = sub

\* The test of the repository on an exception of search_documentation:
\* "rate limit" in str(e).lower()
TestTakesForRateLimit(e) ==
    Contains(Lower(ErrorMessage(e)), <<"r", "a", "t", "e", " ", "l", "i", "m", "i", "t">>)

\* The dictionary appended to results for an item.
SearchResult(item) ==
    [name       |-> item.name,
     path       |-> item.path,
     repository |-> IF item.repository = <<>> THEN ""
                    ELSE Get(item.repository[1].name, ""),
     url        |-> item.html_url]

\* Mutant of Results: an item equal to an earlier one is passed over.
Results_distinct(items) ==
    LET firsts == SelectSeq([i \in DOMAIN items |-> <<i, items[i]>>],
                            LAMBDA p : \A j \in 1..(p[1] - 1) : items[j] # p[2])
    IN  [i \in DOMAIN firsts |-> SearchResult(firsts[i][2])]

\* The loop over data.get("items", []): one result per item, in order.
Results(items) == [i \in DOMAIN items |-> SearchResult(items[i])]

\* Mutant of RateLimited: a 403 is raised as every other status is.
RateLimited_never(resp) == FALSE

\* response.status == 403
RateLimited(resp) == resp.status = 403

\* search_documentation: its request and everything after it.  An
\* exception of the request propagates; 403 raises the rate limit error;
\* another status than 200 raises the upstream error; 200 returns one
\* result per item.
SearchDocumentation ==
    /\ op = "search_documentation"
    /\ pc = "request"
    /\ \E resp \in CodeSearchResponses :
        /\ requests' = Append(requests, CodeSearchRequest)
        /\ response' = <<resp>>
        /\ pc' = "done"
        /\ IF resp.exc
           THEN /\ error' = <<UpstreamError(resp)>>
                /\ outcome' = "raised"
                /\ UNCHANGED result
           ELSE IF RateLimited(resp)
           THEN /\ error' = <<RateLimitError>>
                /\ outcome' = "raised"
                /\ UNCHANGED result
           ELSE IF resp.status # 200
           THEN /\ error' = <<UpstreamError(resp)>>
                /\ outcome' = "raised"
                /\ UNCHANGED result
           ELSE /\ result' = Results(resp.json.items)
                /\ outcome' = "returned"
                /\ UNCHANGED error
    /\ UNCHANGED <<op, arg, searchResp, enumResps, all_repos, page, probes>>
    /\ Session
    /\ UNCHANGED <<environ, parked, running, clientVars, showcaseVars>>

----------------------------------------------------------------------------
(* A call of determine_content_type. *)

DetermineContentType ==
    /\ op = "determine_content_type"
    /\ pc = "call"
    /\ result' = determine_content_type(arg)
    /\ outcome' = "returned"
    /\ pc' = "done"
    /\ UNCHANGED <<op, arg, requests, searchResp, enumResps, all_repos, page,
                   probes, response, error, session, opened>>
    /\ UNCHANGED <<environ, parked, running, clientVars, showcaseVars>>

----------------------------------------------------------------------------
(* MCPClient and MCPSSEClient of src/mcp_generic_client.py. *)

\* The two clients after __init__: no HTTP client, no message sent.
ClientStart ==
    /\ client = "none"
    /\ answer = <<>>
    /\ tool_result = <<>>
    /\ message_id = 0
    /\ calls = <<>>
    /\ wire = <<>>

(* MCPClient.call_tool.  A JSON value is a record with its Python type and  *)
(* its value: a dict is a function of its keys, a list a sequence, a str a  *)
(* sequence of characters.  A formatted message is the sequence of its      *)
(* parts.                                                                   *)

JsonDict(d) == [type |-> "dict", value |-> d]
JsonList(l) == [type |-> "list", value |-> l]
JsonStr(s) == [type |-> "str", value |-> s]
JsonInt(n) == [type |-> "int", value |-> n]
JsonNull == [type |-> "NoneType", value |-> <<>>]

\* The bodies the server can answer with: the text of the body and, when
\* the text is JSON, the value response.json() makes of it (<<>> when it is
\* not: response.json() raises).
ToolBodies ==
    {[text |-> "{\"result\": \"Hello, User!\"}",
      json |-> <<JsonDict([result |-> "Hello, User!"])>>],
     [text |-> "{\"error\": \"Tool 'x' not found\"}",
      json |-> <<JsonDict([error |-> "Tool 'x' not found"])>>],
     [text |-> "{\"error\": \"failed\", \"result\": 1}",
      json |-> <<JsonDict([error |-> "failed", result |-> 1])>>],
     [text |-> "{\"detail\": \"Not Found\"}",
      json |-> <<JsonDict([detail |-> "Not Found"])>>],
     [text |-> "{}",
      json |-> <<JsonDict(<<>>)>>],
     [text |-> "[\"error\"]",
      json |-> <<JsonList(<<"error">>)>>],
     [text |-> "[]",
      json |-> <<JsonList(<<>>)>>],
     [text |-> "\"an error\"",
      json |-> <<JsonStr(<<"a", "n", " ", "e", "r", "r", "o", "r">>)>>],
     [text |-> "\"ok\"",
      json |-> <<JsonStr(<<"o", "k">>)>>],
     [text |-> "null",
      json |-> <<JsonNull>>],
     [text |-> "5",
      json |-> <<JsonInt(5)>>],
     [text |-> "Internal Server Error",
      json |-> <<>>],
     [text |-> "",
      json |-> <<>>]}

ToolStatuses == {200, 201, 204, 404, 500}

\* What self._client.post(...) meets: an exception of the transport, or a
\* response.
Answers ==
    {[exc |-> <<e>>, status |-> 0, body |-> [text |-> "", json |-> <<>>]] :
        e \in {"ConnectError", "ReadTimeout"}}
    \cup {[exc |-> <<>>, status |-> s, body |-> b] : s \in ToolStatuses, b \in ToolBodies}

\* ToolResult(success=..., result=..., error=...); None is <<>>.
ToolResult(success, res, err) ==
    [raised |-> FALSE, success |-> success, result |-> res, error |-> err]

\* An exception on its way out of an expression: its class and str(e).
Raise(class, message) == [raised |-> TRUE, class |-> class, message |-> message]

\* response.raise_for_status() returns for a success status.
is_success(status) == status \in 200..299

\* "error" in data
HasErrorKey(data) ==
    IF data.type = "dict" THEN "error" \in DOMAIN data.value
    ELSE IF data.type = "list" THEN \E k \in DOMAIN data.value : data.value[k] = "error"
    ELSE IF data.type = "str" THEN Contains(data.value, <<"e", "r", "r", "o", "r">>)
    ELSE FALSE

\* The body of the try statement of call_tool: the ToolResult it returns or
\* the exception that leaves it.
TryCallTool(cl, a) ==
    IF cl = "none"
    THEN Raise("AttributeError", <<"'NoneType' object has no attribute 'post'">>)
    ELSE IF a.exc # <<>> THEN Raise(a.exc[1], <<a.exc[1]>>)
    ELSE IF ~is_success(a.status)
    THEN Raise("HTTPStatusError", <<"HTTP ", ToString(a.status), ": ", a.body.text>>)
    ELSE IF a.body.json = <<>> THEN Raise("JSONDecodeError", <<"Expecting value">>)
    ELSE LET data == a.body.json[1] IN
         IF data.type \notin {"dict", "list", "str"}
         THEN Raise("TypeError", <<"argument of type '", data.type, "' is not iterable">>)
         ELSE IF HasErrorKey(data)
         THEN IF data.type = "dict"
              THEN ToolResult(FALSE, <<>>, <<data.value.error>>)
              ELSE Raise("TypeError", <<data.type, " indices must be integers">>)
         ELSE IF data.type = "dict"
              THEN ToolResult(TRUE,
                              IF "result" \in DOMAIN data.value
                              THEN <<data.value.result>> ELSE <<>>,
                              <<>>)
              ELSE Raise("AttributeError",
                         <<"'", data.type, "' object has no attribute 'get'">>)

\* The classes "except Exception" catches; asyncio.CancelledError and
\* KeyboardInterrupt are not among them.
ExceptionClasses ==
    {"HTTPStatusError", "ConnectError", "ReadTimeout", "AttributeError",
     "TypeError", "JSONDecodeError"}

\* Mutant of call_tool: the try statement has the handler of
\* httpx.HTTPStatusError only.
call_tool_oneHandler(cl, a) ==
    LET tried == TryCallTool(cl, a) IN
    IF tried.raised /\ tried.class = "HTTPStatusError"
    THEN ToolResult(FALSE, <<>>, <<tried.message>>)
    ELSE tried

\* call_tool: the try statement with its two handlers.  "except
\* httpx.HTTPStatusError" formats the status and the text, "except
\* Exception" gives str(e).
call_tool(cl, a) ==
    LET tried == TryCallTool(cl, a) IN
    IF tried.raised /\ tried.class = "HTTPStatusError"
    THEN ToolResult(FALSE, <<>>, <<tried.message>>)
    ELSE IF tried.raised /\ tried.class \in ExceptionClasses
    THEN ToolResult(FALSE, <<>>, <<tried.message>>)
    ELSE tried

\* async with client: __aenter__ makes the httpx.AsyncClient.
AEnter ==
    /\ client' = "open"
    /\ UNCHANGED <<answer, tool_result, message_id, calls, wire>>
    /\ UNCHANGED <<mainVars, environ, parked, running, showcaseVars>>

\* __aexit__ closes it and sets self._client = None.
AExit ==
    /\ client' = "none"
    /\ UNCHANGED <<answer, tool_result, message_id, calls, wire>>
    /\ UNCHANGED <<mainVars, environ, parked, running, showcaseVars>>

\* A call of call_tool.  With no HTTP client no request is made.
CallTool ==
    /\ IF client = "none"
       THEN /\ answer' = <<>>
            /\ tool_result' = <<call_tool(client, <<>>)>>
       ELSE \E a \in Answers :
            /\ answer' = <<a>>
            /\ tool_result' = <<call_tool(client, a)>>
    /\ UNCHANGED <<client, message_id, calls, wire>>
    /\ UNCHANGED <<mainVars, environ, parked, running, showcaseVars>>

----------------------------------------------------------------------------
(* MCPSSEClient.send_message.  Several calls can be in progress: a call     *)
(* runs up to its first await when it is made, and the event loop goes on   *)
(* with any call whose await is over.                                       *)

\* At most this many send_message calls are made.
MaxMessages == 2

Methods == {"initialize", "tools/list"}

\* An SSE event: its data and, when the data is JSON, what json.loads
\* makes of it (<<>> when it is not: json.loads raises).
SseEvent(data, json) == [data |-> data, json |-> json]

KeepAlive == SseEvent("", <<>>)

Reply ==
    SseEvent("{\"jsonrpc\": \"2.0\", \"result\": {}}",
             <<JsonDict([jsonrpc |-> "2.0", result |-> JsonDict(<<>>)])>>)

Notification ==
    SseEvent("{\"jsonrpc\": \"2.0\", \"method\": \"notifications/message\"}",
             <<JsonDict([jsonrpc |-> "2.0", method |-> "notifications/message"])>>)

NotJson == SseEvent("ping", <<>>)

\* The event streams the server answers a POST with.
SseStreams ==
    {<<>>,
     <<KeepAlive>>,
     <<Reply>>,
     <<KeepAlive, Reply>>,
     <<Notification, Reply>>,
     <<KeepAlive, KeepAlive>>,
     <<KeepAlive, NotJson, Reply>>}

\* {"error": "No response received"}
NoResponse == JsonDict([error |-> "No response received"])

\* Mutant of next_id: the id is read before the increment.
next_id_beforeIncrement(mid) == [message_id |-> mid + 1, id |-> mid]

\* _next_id: self._message_id += 1; return self._message_id
next_id(mid) == [message_id |-> mid + 1, id |-> mid + 1]

\* A call of send_message: the message is built, with the next id, before
\* the first await.
SendMessage ==
    /\ client = "open"
    /\ Len(calls) < MaxMessages
    /\ \E method \in Methods :
        LET next == next_id(message_id) IN
        /\ message_id' = next.message_id
        /\ calls' = Append(calls,
                           [message |-> [jsonrpc |-> "2.0", id |-> next.id,
                                         method |-> method, params |-> <<>>],
                            pc |-> "connect", stream |-> <<>>, read |-> 0,
                            outcome |-> "pending", result |-> <<>>])
    /\ UNCHANGED <<client, answer, tool_result, wire>>
    /\ UNCHANGED <<mainVars, environ, parked, running, showcaseVars>>

\* aconnect_sse of a call: the POST with the message reaches the server,
\* which answers with an event stream; or the connection fails and the
\* exception leaves send_message.
Post ==
    /\ \E i \in DOMAIN calls :
        /\ calls[i].pc = "connect"
        /\ \/ \E stream \in SseStreams :
               /\ wire' = Append(wire, calls[i].message)
               /\ calls' = [calls EXCEPT ![i].pc = "stream", ![i].stream = stream]
           \/ /\ calls' = [calls EXCEPT ![i].pc = "done", ![i].outcome = "raised"]
              /\ UNCHANGED wire
    /\ UNCHANGED <<client, answer, tool_result, message_id>>
    /\ UNCHANGED <<mainVars, environ, parked, running, showcaseVars>>

\* One turn of "async for sse in event_source.aiter_sse()": the next event
\* is read, and if sse.data is not empty json.loads(sse.data) is returned
\* (or raises); at the end of the stream the loop is left and
\* {"error": "No response received"} is returned.
ReadEvent ==
    /\ \E i \in DOMAIN calls :
        /\ calls[i].pc = "stream"
        /\ IF calls[i].read = Len(calls[i].stream)
           THEN calls' = [calls EXCEPT ![i].pc = "done", ![i].outcome = "returned",
                                       ![i].result = <<NoResponse>>]
           ELSE LET sse == calls[i].stream[calls[i].read + 1] IN
                IF sse.data = ""
                THEN calls' = [calls EXCEPT ![i].read = @ + 1]
                ELSE IF sse.json = <<>>
                THEN calls' = [calls EXCEPT ![i].read = @ + 1, ![i].pc = "done",
                                            ![i].outcome = "raised"]
                ELSE calls' = [calls EXCEPT ![i].read = @ + 1, ![i].pc = "done",
                                            ![i].outcome = "returned",
                                            ![i].result = <<sse.json[1]>>]
    /\ UNCHANGED <<client, answer, tool_result, message_id, wire>>
    /\ UNCHANGED <<mainVars, environ, parked, running, showcaseVars>>

----------------------------------------------------------------------------
(* The showcase server of src/mcp_showcase_server.py. *)

\* The server after import: the storage is empty, no request was made.
ShowcaseStart ==
    /\ task_storage = <<>>
    /\ pending = <<>>
    /\ created = <<>>
    /\ reply = <<>>

(* task_storage is a dict: the sequence of its items, in the order of the  *)
(* first assignment of each key.                                            *)

\* At most this many tasks are created.
MaxTasks == 3

\* len(d)
DictLen(d) == Len(d)

\* key in d
DictHas(d, key) == \E k \in DOMAIN d : d[k].key = key

\* d[key], for a key that is in d
DictGet(d, key) == d[CHOOSE k \in DOMAIN d : d[k].key = key].value

\* d[key] = value
DictSet(d, key, value) ==
    IF DictHas(d, key)
    THEN [k \in DOMAIN d |-> IF d[k].key = key THEN [key |-> key, value |-> value] ELSE d[k]]
    ELSE Append(d, [key |-> key, value |-> value])

\* TaskInput, with the defaults of its fields.
TaskInput(title, priority) ==
    [title |-> title, description |-> <<>>, priority |-> priority, tags |-> <<>>,
     due_date |-> <<>>]

TaskInputs ==
    {TaskInput("Write docs", "medium"), TaskInput("Fix bug", "high")}

\* f"{n:04d}": the digits of n, with zeros in front up to four characters.
RECURSIVE ZeroPad(_, _)
ZeroPad(digits, width) ==
    IF Len(digits) >= width THEN digits ELSE ZeroPad(<<"0">> \o digits, width)

\* Mutant of task_id: the number of the task is len(task_storage).
task_id_withoutPlusOne(storage) ==
    <<"t", "a", "s", "k", "_">> \o ZeroPad(Str(DictLen(storage)), 4)

\* task_id = f"task_{len(task_storage) + 1:04d}"
task_id(storage) ==
    <<"t", "a", "s", "k", "_">> \o ZeroPad(Str(DictLen(storage) + 1), 4)

\* The TaskOutput create_task builds.  created_at is the time of the call,
\* which nothing in the model reads.
TaskOutput(id, task) ==
    [id |-> id, title |-> task.title, description |-> task.description,
     priority |-> task.priority, tags |-> task.tags, due_date |-> task.due_date,
     created_at |-> "datetime.now().isoformat()", status |-> "pending"]

\* get_task_resource(task_id)
get_task_resource(storage, id) ==
    IF DictHas(storage, id) THEN DictGet(storage, id)
    ELSE [error |-> <<"Task ", id, " not found">>]

\* A caller calls create_task: the coroutine is made and waits for the
\* event loop.
CallCreateTask ==
    /\ Len(pending) + Len(created) < MaxTasks
    /\ \E task \in TaskInputs : pending' = Append(pending, task)
    /\ UNCHANGED <<task_storage, created, reply>>
    /\ UNCHANGED <<mainVars, environ, parked, running, clientVars>>

\* The event loop runs the coroutine of one of the calls.  create_task has
\* no await: its body runs from the first line to the return.
CreateTask ==
    /\ \E i \in DOMAIN pending :
        LET output == TaskOutput(task_id(task_storage), pending[i]) IN
        /\ task_storage' = DictSet(task_storage, output.id, output)
        /\ created' = Append(created, output)
        /\ pending' = SubSeq(pending, 1, i - 1) \o SubSeq(pending, i + 1, Len(pending))
    /\ UNCHANGED reply
    /\ UNCHANGED <<mainVars, environ, parked, running, clientVars>>

\* The resource tasks://{task_id} is read.
ReadTask ==
    /\ \E n \in 1..(MaxTasks + 1) :
        LET id == <<"t", "a", "s", "k", "_">> \o ZeroPad(Str(n), 4) IN
        reply' = <<[request |-> "resource", name |-> id, status |-> 200,
                    body |-> get_task_resource(task_storage, id)]>>
    /\ UNCHANGED <<task_storage, pending, created>>
    /\ UNCHANGED <<mainVars, environ, parked, running, clientVars>>

(* The REST API. *)

\* The names list_tools_endpoint goes through.
AdvertisedTools ==
    <<"hello_world", "calculate", "create_task", "list_tasks", "analyze_text",
      "convert_data", "generate_sample_data", "increment_counter">>

\* The keys of tool_map.
tool_map ==
    {"hello_world", "calculate", "list_tasks", "generate_sample_data",
     "increment_counter"}

\* The keys of async_tool_map.
async_tool_map == {"create_task", "analyze_text"}

\* The tool names a client asks for: the advertised ones and one that is
\* not.
ToolNames == {AdvertisedTools[k] : k \in DOMAIN AdvertisedTools} \cup {"no_such_tool"}

\* The JSON bodies of a POST: none, and the fields of a task.
ToolParams == {<<>>, <<[title |-> "Write docs"]>>}

\* {"error": f"Tool '{tool_name}' not found"}
ToolNotFound(tool_name) == [error |-> <<"Tool '", tool_name, "' not found">>]

\* GET /api/tools
ListTools ==
    /\ reply' = <<[request |-> "list", name |-> "", status |-> 200,
                   body |-> [tools |-> [k \in DOMAIN AdvertisedTools |->
                                          [name |-> AdvertisedTools[k],
                                           endpoint |-> <<"/api/tools/", AdvertisedTools[k]>>]]]]>>
    /\ UNCHANGED <<task_storage, pending, created>>
    /\ UNCHANGED <<mainVars, environ, parked, running, clientVars>>

\* POST /api/tools/{tool_name}.  The tools of tool_map and analyze_text are
\* run with the defaults of the parameters the body does not give, and what
\* they return is not modelled; create_task is run on TaskInput(**params),
\* which raises when the body has no title.
ExecuteTool ==
    /\ \E tool_name \in ToolNames : \E params \in ToolParams :
        IF tool_name \in tool_map
        THEN /\ reply' = <<[request |-> "execute", name |-> tool_name, status |-> 200,
                            body |-> [result |-> <<"result of ", tool_name>>]]>>
             /\ UNCHANGED <<task_storage, created>>
        ELSE IF tool_name = "create_task" /\ params = <<>>
        THEN /\ reply' = <<[request |-> "execute", name |-> tool_name, status |-> 500,
                            body |-> [detail |-> "ValidationError"]]>>
             /\ UNCHANGED <<task_storage, created>>
        ELSE IF tool_name = "create_task"
        THEN /\ Len(pending) + Len(created) < MaxTasks
             /\ LET output == TaskOutput(task_id(task_storage),
                                         TaskInput(params[1].title, "medium")) IN
                /\ task_storage' = DictSet(task_storage, output.id, output)
                /\ created' = Append(created, output)
                /\ reply' = <<[request |-> "execute", name |-> tool_name, status |-> 200,
                               body |-> [result |-> output]]>>
        ELSE IF tool_name \in async_tool_map
        THEN /\ reply' = <<[request |-> "execute", name |-> tool_name, status |-> 200,
                            body |-> [result |-> <<"result of ", tool_name>>]]>>
             /\ UNCHANGED <<task_storage, created>>
        ELSE /\ reply' = <<[request |-> "execute", name |-> tool_name, status |-> 200,
                            body |-> ToolNotFound(tool_name)]>>
             /\ UNCHANGED <<task_storage, created>>
    /\ UNCHANGED pending
    /\ UNCHANGED <<mainVars, environ, parked, running, clientVars>>

----------------------------------------------------------------------------
(* The specification. *)

Operations ==
    {"get_org_repos", "get_repo_docs", "get_file_content",
     "search_documentation", "determine_content_type"}

\* The arguments the model calls operation o with.
Arguments(o) ==
    IF o = "get_file_content"
    THEN {<<"d", "o", "c", "/", "R", "E", "A", "D", "M", "E", ".", "m", "d">>, <<"d", "o", "c", "/", "a", "p", "i", ".", "y", "m", "l">>}
    ELSE IF o = "determine_content_type" THEN Filenames
    ELSE {<<>>}

StartPc(o) ==
    IF o = "get_org_repos" THEN "search"
    ELSE IF o = "determine_content_type" THEN "call"
    ELSE "request"

\* The locals of a call that has not started.
MainStart ==
    /\ op \in Operations
    /\ arg \in Arguments(op)
    /\ pc = StartPc(op)
    /\ requests = <<>>
    /\ searchResp = <<>>
    /\ enumResps = <<>>
    /\ all_repos = <<>>
    /\ page = 0
    /\ probes = <<>>
    /\ response = <<>>
    /\ result = <<>>
    /\ outcome = "pending"
    /\ error = <<>>
    /\ session = "none"
    /\ opened = 0

\* One call, nothing suspended beside it.
OneCall ==
    /\ parked = <<>>
    /\ running = 1

\* No call of the server is made.
MainIdle ==
    /\ op = "none"
    /\ arg = <<>>
    /\ pc = "idle"
    /\ requests = <<>>
    /\ searchResp = <<>>
    /\ enumResps = <<>>
    /\ all_repos = <<>>
    /\ page = 0
    /\ probes = <<>>
    /\ response = <<>>
    /\ result = <<>>
    /\ outcome = "pending"
    /\ error = <<>>
    /\ session = "none"
    /\ opened = 0
    /\ environ = <<>>
    /\ parked = <<>>
    /\ running = 1

\* One call of the server as it runs when the environment holds no
\* GITHUB_TOKEN.
Init ==
    /\ MainStart
    /\ environ = <<>>
    /\ OneCall
    /\ ClientStart
    /\ ShowcaseStart

\* One call of the server under any environment.
InitEnv ==
    /\ MainStart
    /\ environ \in Environments
    /\ OneCall
    /\ ClientStart
    /\ ShowcaseStart

Next ==
    \/ Search
    \/ Enumerate
    \/ Probe
    \/ FallbackReturn
    \/ GetRepoDocs
    \/ GetFileContent
    \/ SearchDocumentation
    \/ DetermineContentType

Spec == Init /\ [][Next]_vars

SpecEnv == InitEnv /\ [][Next]_vars

----------------------------------------------------------------------------
(* Two simultaneous calls.  The event loop runs one coroutine at a time and *)
(* changes to another one only where the running one awaits: between the    *)
(* steps of the model.  The variables of main.py hold the locals of the     *)
(* running call, parked those of the call that waits.                       *)

\* What a call owns: its arguments and locals and its ClientSession.  The
\* functions of main.py assign no module-level name and the module holds no
\* mutable object they touch.
Locals ==
    [op |-> op, arg |-> arg, pc |-> pc, requests |-> requests,
     searchResp |-> searchResp, enumResps |-> enumResps, all_repos |-> all_repos,
     page |-> page, probes |-> probes, response |-> response, result |-> result,
     outcome |-> outcome, error |-> error, session |-> session, opened |-> opened]

\* The locals of a call of operation o that has not started.
Fresh(o, a) ==
    [op |-> o, arg |-> a, pc |-> StartPc(o), requests |-> <<>>,
     searchResp |-> <<>>, enumResps |-> <<>>, all_repos |-> <<>>,
     page |-> 0, probes |-> <<>>, response |-> <<>>, result |-> <<>>,
     outcome |-> "pending", error |-> <<>>, session |-> "none", opened |-> 0]

\* Mutant of Switch: all_repos is one list of the module, which the calls
\* share, and not a local of get_org_repos.
Switch_sharedAllRepos ==
    /\ parked # <<>>
    /\ parked[1].pc # "done"
    /\ op' = parked[1].op
    /\ arg' = parked[1].arg
    /\ pc' = parked[1].pc
    /\ requests' = parked[1].requests
    /\ searchResp' = parked[1].searchResp
    /\ enumResps' = parked[1].enumResps
    /\ all_repos' = all_repos
    /\ page' = parked[1].page
    /\ probes' = parked[1].probes
    /\ response' = parked[1].response
    /\ result' = parked[1].result
    /\ outcome' = parked[1].outcome
    /\ error' = parked[1].error
    /\ session' = parked[1].session
    /\ opened' = parked[1].opened
    /\ parked' = <<Locals>>
    /\ running' = 3 - running
    /\ UNCHANGED <<environ, clientVars, showcaseVars>>

\* The running call is at an await and the event loop goes on with the
\* other call, which has not finished.
Switch ==
    /\ parked # <<>>
    /\ parked[1].pc # "done"
    /\ op' = parked[1].op
    /\ arg' = parked[1].arg
    /\ pc' = parked[1].pc
    /\ requests' = parked[1].requests
    /\ searchResp' = parked[1].searchResp
    /\ enumResps' = parked[1].enumResps
    /\ all_repos' = parked[1].all_repos
    /\ page' = parked[1].page
    /\ probes' = parked[1].probes
    /\ response' = parked[1].response
    /\ result' = parked[1].result
    /\ outcome' = parked[1].outcome
    /\ error' = parked[1].error
    /\ session' = parked[1].session
    /\ opened' = parked[1].opened
    /\ parked' = <<Locals>>
    /\ running' = 3 - running
    /\ UNCHANGED <<environ, clientVars, showcaseVars>>

\* The operations of the two calls.
PairOperations == {"get_org_repos", "search_documentation"}

\* The two calls together issue at most this many requests.
MaxPairRequests == 3

\* The number of entries a response lists: the items of a search ("items"),
\* the repositories of a page or the entries of a folder ("list"), none for
\* a file.
Listed(resp, shape) ==
    IF resp.exc \/ resp.status # 200 THEN 0
    ELSE IF shape = "items" THEN Len(resp.json.items)
    ELSE IF shape = "list" THEN Len(resp.json)
    ELSE 0

\* The longest list among the responses a call has received.
Longest(call) ==
    LET lists ==
          {Listed(call.searchResp[k], "items") : k \in DOMAIN call.searchResp}
          \cup {Listed(call.enumResps[k], "list") : k \in DOMAIN call.enumResps}
          \cup {Listed(call.response[k],
                        IF call.op = "search_documentation" THEN "items"
                        ELSE IF call.op = "get_repo_docs" THEN "list"
                        ELSE "file") : k \in DOMAIN call.response}
          \cup {0}
    IN  CHOOSE n \in lists : \A l \in lists : l <= n

\* The locals of call i, running or parked.
LocalsOf(i) == IF running = i THEN Locals ELSE parked[1]

\* The upstream answers the first call with lists of at most a full page
\* and the second call with lists of at most one entry.
PairBound ==
    /\ Len(requests) + Len(parked[1].requests) <= MaxPairRequests
    /\ Longest(LocalsOf(1)) <= RESULTS_PER_PAGE
    /\ Longest(LocalsOf(2)) <= 1

InitPair ==
    /\ MainStart
    /\ op \in PairOperations
    /\ environ = <<>>
    /\ \E o \in PairOperations : \E a \in Arguments(o) : parked = <<Fresh(o, a)>>
    /\ running = 1
    /\ ClientStart
    /\ ShowcaseStart

\* A step of the running call, or the event loop going on with the other
\* call.
NextPair ==
    \/ Search /\ PairBound'
    \/ Enumerate /\ PairBound'
    \/ Probe /\ PairBound'
    \/ FallbackReturn /\ PairBound'
    \/ SearchDocumentation /\ PairBound'
    \/ Switch

SpecPair == InitPair /\ [][NextPair]_vars

----------------------------------------------------------------------------
(* An MCPClient and its caller. *)

InitClient ==
    /\ MainIdle
    /\ ClientStart
    /\ ShowcaseStart

NextClient ==
    \/ AEnter
    \/ AExit
    \/ CallTool

SpecClient == InitClient /\ [][NextClient]_vars

----------------------------------------------------------------------------
(* An MCPSSEClient inside "async with", and its callers. *)

InitSSE ==
    /\ MainIdle
    /\ client = "open"
    /\ answer = <<>>
    /\ tool_result = <<>>
    /\ message_id = 0
    /\ calls = <<>>
    /\ wire = <<>>
    /\ ShowcaseStart

NextSSE ==
    \/ SendMessage
    \/ Post
    \/ ReadEvent

SpecSSE == InitSSE /\ [][NextSSE]_vars

----------------------------------------------------------------------------
(* The showcase server and its clients. *)

InitShowcase ==
    /\ MainIdle
    /\ ClientStart
    /\ ShowcaseStart

NextShowcase ==
    \/ CallCreateTask
    \/ CreateTask
    \/ ReadTask
    \/ ListTools
    \/ ExecuteTool

SpecShowcase == InitShowcase /\ [][NextShowcase]_vars

----------------------------------------------------------------------------
(* What the properties below read off the history of a call. *)

\* A success status.
Is2xx(status) == status \in 200..299

\* The response is a failure: a network exception or a non-2xx status.
Failed(resp) == resp.exc \/ ~Is2xx(resp.status)

Last(s) == s[Len(s)]

EnumRequests == SelectSeq(requests, LAMBDA q : q.kind = "enum")

ProbeRequests == SelectSeq(requests, LAMBDA q : q.kind = "probe")

\* The pages the enumeration received, in order.
PagesReceived ==
    LET ok == SelectSeq(enumResps, LAMBDA r : ~Failed(r))
    IN  [i \in DOMAIN ok |-> ok[i].json]

RECURSIVE Flatten(_)
Flatten(ss) == IF ss = <<>> THEN <<>> ELSE Head(ss) \o Flatten(Tail(ss))

\* The repositories enumerated, in the order they appeared across the pages.
Enumerated == Flatten(PagesReceived)

SearchSucceeded == searchResp # <<>> /\ ~Failed(searchResp[1])

SearchFailed == searchResp # <<>> /\ Failed(searchResp[1])

DistinctNames(list) ==
    \A i, j \in DOMAIN list : i # j => list[i].name # list[j].name

----------------------------------------------------------------------------
(* Properties of get_org_repos. *)

\* C1: when the search request answers with a success status the call has
\* returned right there, with the search request its only request (no
\* enumeration, no probe), also when the list is empty; an enumeration or
\* probe request is issued only after a search that answered a non-2xx
\* status or raised a network exception.
C1_SearchDecidesStrategy ==
    op = "get_org_repos" =>
        /\ SearchSucceeded =>
              /\ pc = "done" /\ outcome = "returned"
              /\ requests = <<SearchRequest>>
              /\ enumResps = <<>> /\ probes = <<>>
              /\ (searchResp[1].json.items = <<>> => result = <<>>)
        /\ (\E i \in DOMAIN requests : requests[i].kind \in {"enum", "probe"})
              => SearchFailed

\* The search answered 200 with no items and the call returned the empty list.
C1_Witness ==
    /\ op = "get_org_repos" /\ SearchSucceeded
    /\ searchResp[1].json.items = <<>>
    /\ outcome = "returned" /\ result = <<>>

\* C2: a failed search request (non-success status or network exception) is
\* never surfaced: the call never ends on it, its next request is page 1 of
\* the enumeration, and the call raises exactly when an enumeration request
\* failed, with that request's error.
C2_SearchFailureAbsorbed ==
    (op = "get_org_repos" /\ SearchFailed) =>
        /\ pc # "search"
        /\ (pc = "done" => Len(requests) >= 2)
        /\ (Len(requests) >= 2 => requests[2] = EnumRequest(1))
        /\ (outcome = "raised" <=>
                (enumResps # <<>> /\ Failed(Last(enumResps))))
        /\ (outcome = "raised" =>
                LET r == Last(enumResps) IN
                error = <<[kind   |-> IF r.exc THEN "network" ELSE "upstream",
                           status |-> r.status, body |-> r.body]>>)
        /\ (outcome # "raised" => error = <<>>)

\* The search answered 403 and the call returned a list from the fallback.
C2_Witness ==
    /\ op = "get_org_repos" /\ SearchFailed
    /\ ~searchResp[1].exc /\ searchResp[1].status = 403
    /\ outcome = "returned" /\ result # <<>>

\* C3: after a successful search the returned list holds, for every
\* repository name occurring in the items, exactly one summary, built from
\* the first item carrying the name; it holds nothing else; every summary
\* has hasDocFolder = TRUE.
C3_SearchFirstOccurrenceWins ==
    (op = "get_org_repos" /\ SearchSucceeded /\ outcome = "returned") =>
        LET items == searchResp[1].json.items
            Name(i) == items[i].repository.name
            First(i) == /\ Name(i) # <<>>
                        /\ \A j \in 1..(i - 1) : Name(j) # Name(i)
        IN  /\ \A i \in DOMAIN items : First(i) =>
                  /\ Cardinality({k \in DOMAIN result :
                                     result[k].name = Name(i)[1]}) = 1
                  /\ \A k \in DOMAIN result : result[k].name = Name(i)[1] =>
                        result[k] = SearchSummary(items[i].repository)
            /\ \A k \in DOMAIN result :
                  /\ \E i \in DOMAIN items :
                        First(i) /\ result[k].name = Name(i)[1]
                  /\ result[k].hasDocFolder = TRUE

\* Two items of the same repository name with different ids gave one summary,
\* the first item's.
C3_Witness ==
    /\ op = "get_org_repos" /\ SearchSucceeded /\ outcome = "returned"
    /\ Len(searchResp[1].json.items) = 2
    /\ searchResp[1].json.items[1].repository.name = <<"alpha">>
    /\ searchResp[1].json.items[2].repository.name = <<"alpha">>
    /\ searchResp[1].json.items[1].repository.id = <<12>>
    /\ searchResp[1].json.items[2].repository.id = <<7>>
    /\ Len(result) = 1
    /\ result[1].id = <<"1", "2">>

\* C4 as stated: whichever strategy produced it, the returned list holds no
\* two summaries of the same repository name.
C4_Original ==
    (op = "get_org_repos" /\ outcome = "returned") => DistinctNames(result)

\* C4 amended: a list returned by the search strategy holds no two summaries
\* of the same name; a list returned by the fallback holds one summary per
\* enumerated entry, under the entry's name, so that its names are distinct
\* exactly when the enumeration returned no repository twice.
C4_UniqueNamesFromSearchOnly ==
    (op = "get_org_repos" /\ outcome = "returned") =>
        IF SearchSucceeded THEN DistinctNames(result)
        ELSE /\ Len(result) = Len(Enumerated)
             /\ \A i \in DOMAIN result : result[i].name = Enumerated[i].name[1]
             /\ (DistinctNames(result) <=>
                    \A i, j \in DOMAIN Enumerated :
                        i # j => Enumerated[i].name # Enumerated[j].name)

\* The enumeration returned a repository on page 1 and again on page 2, and
\* the returned list names it twice.
C4_Witness ==
    /\ op = "get_org_repos" /\ SearchFailed /\ outcome = "returned"
    /\ Len(PagesReceived) = 2
    /\ \E i \in DOMAIN PagesReceived[1], j \in DOMAIN PagesReceived[2] :
          PagesReceived[1][i] = PagesReceived[2][j]
    /\ ~DistinctNames(result)

\* C5: a list returned by the fallback holds exactly one summary per
\* enumerated repository, in the order of the pages, the i-th built from the
\* i-th repository with hasDocFolder = the i-th probe answered success; the
\* i-th probe is the one made for the i-th repository.
C5_FallbackOrderAndProbes ==
    (op = "get_org_repos" /\ SearchFailed /\ outcome = "returned") =>
        /\ Len(result) = Len(Enumerated)
        /\ Len(probes) = Len(Enumerated)
        /\ Len(ProbeRequests) = Len(Enumerated)
        /\ \A i \in DOMAIN Enumerated :
              /\ ProbeRequests[i].repo = Enumerated[i].name[1]
              /\ result[i] =
                    [id           |-> Str(Enumerated[i].id[1]),
                     name         |-> Enumerated[i].name[1],
                     description  |-> IF Enumerated[i].description = <<>>
                                      THEN ""
                                      ELSE Enumerated[i].description[1],
                     url          |-> Enumerated[i].html_url[1],
                     hasDocFolder |-> (~probes[i].exc
                                         /\ Is2xx(probes[i].status))]

\* Three repositories, probes found / not found / found.
C5_Witness ==
    /\ op = "get_org_repos" /\ SearchFailed /\ outcome = "returned"
    /\ Len(result) = 3
    /\ [i \in 1..3 |-> probes[i].status] = <<200, 404, 200>>
    /\ [i \in 1..3 |-> result[i].hasDocFolder] = <<TRUE, FALSE, TRUE>>
    /\ [i \in 1..3 |-> result[i].name] = <<"beta", "alpha", "beta">>

\* C6: the enumeration requests ask for pages 1, 2, 3, ... in this order,
\* each once; every page before the last received one is full; the loop goes
\* on after a full page and is left with the first short or empty page (or
\* failure), after which no page is requested; all_repos is the
\* concatenation of the received pages.
C6_Pagination ==
    op = "get_org_repos" =>
        /\ \A k \in DOMAIN EnumRequests : EnumRequests[k].page = k
        /\ Len(EnumRequests) = Len(enumResps)
        /\ \A k \in 1..(Len(enumResps) - 1) :
              /\ ~Failed(enumResps[k])
              /\ Len(enumResps[k].json) = RESULTS_PER_PAGE
        /\ (enumResps # <<>> =>
              (pc = "enum" <=> /\ ~Failed(Last(enumResps))
                               /\ Len(Last(enumResps).json) = RESULTS_PER_PAGE))
        /\ (pc = "enum" => page = Len(enumResps) + 1)
        /\ all_repos = Enumerated

\* A full page 1 and a short page 2 were received and the loop was left.
C6_Witness ==
    /\ op = "get_org_repos"
    /\ Len(enumResps) = 2
    /\ ~Failed(enumResps[2]) /\ Len(enumResps[2].json) = RESULTS_PER_PAGE - 1
    /\ EnumRequests = <<EnumRequest(1), EnumRequest(2)>>
    /\ pc = "probe"
    /\ Len(all_repos) = RESULTS_PER_PAGE + RESULTS_PER_PAGE - 1

\* C7: every probe resolves to a boolean, TRUE exactly for a success status
\* and FALSE for every other status and for an exception; the call has not
\* raised after any probe, and ends by returning.
C7_ProbeNeverFails ==
    (op = "get_org_repos" /\ probes # <<>>) =>
        /\ Len(result) = Len(probes)
        /\ \A k \in DOMAIN probes :
              /\ result[k].hasDocFolder \in BOOLEAN
              /\ (result[k].hasDocFolder <=>
                    (~probes[k].exc /\ Is2xx(probes[k].status)))
        /\ outcome # "raised" /\ error = <<>>
        /\ (pc = "done" => outcome = "returned")

\* Probes that raised, answered 500 and answered 200, and the call returned.
C7_Witness ==
    /\ op = "get_org_repos" /\ outcome = "returned"
    /\ Len(probes) = 3
    /\ probes[1].exc
    /\ ~probes[2].exc /\ probes[2].status = 500
    /\ ~probes[3].exc /\ probes[3].status = 200
    /\ [i \in 1..3 |-> result[i].hasDocFolder] = <<FALSE, FALSE, TRUE>>

\* C8: a non-2xx status on an enumeration page, the first or a later one,
\* makes the call raise an error with that status and body; nothing is
\* returned and no probe request is issued.
C8_EnumerationFailureIsFatal ==
    op = "get_org_repos" =>
        \A k \in DOMAIN enumResps :
            (~enumResps[k].exc /\ ~Is2xx(enumResps[k].status)) =>
                /\ k = Len(enumResps)
                /\ pc = "done" /\ outcome = "raised"
                /\ error = <<[kind   |-> "upstream",
                              status |-> enumResps[k].status,
                              body   |-> enumResps[k].body]>>
                /\ ProbeRequests = <<>> /\ probes = <<>>
                /\ result = <<>>

\* Page 1 was received in full and page 2 answered 500.
C8_Witness ==
    /\ op = "get_org_repos"
    /\ Len(enumResps) = 2
    /\ ~Failed(enumResps[1]) /\ Len(all_repos) = RESULTS_PER_PAGE
    /\ ~enumResps[2].exc /\ enumResps[2].status = 500
    /\ outcome = "raised"

----------------------------------------------------------------------------
(* Properties of get_repo_docs. *)

\* The two characters are equal up to the case of a letter.
SameCharIgnoringCase(a, b) ==
    \/ a = b
    \/ \E k \in DOMAIN UpperChars :
          {a, b} = {UpperChars[k], LowerChars[k]}

\* name ends, case-insensitively, with ext.
EndsWithIgnoringCase(name, ext) ==
    /\ Len(ext) <= Len(name)
    /\ \A i \in DOMAIN ext :
          SameCharIgnoringCase(name[Len(name) - Len(ext) + i], ext[i])

\* The entry is a file of one of the seven supported extensions.
Retained(item) ==
    /\ item.type = "file"
    /\ \E ext \in {<<".", "m", "d">>,
                    <<".", "m", "m", "d">>,
                    <<".", "m", "e", "r", "m", "a", "i", "d">>,
                    <<".", "s", "v", "g">>,
                    <<".", "y", "m", "l">>,
                    <<".", "y", "a", "m", "l">>,
                    <<".", "j", "s", "o", "n">>} :
          EndsWithIgnoringCase(item.name, ext)

\* C9: get_repo_docs makes one request; a 404 gives the empty list as a
\* normal return; any other non-2xx status raises an error carrying the
\* status and the body; a success status returns; a non-empty list is
\* returned only for a success status.
C9_DocsStatusMapping ==
    (op = "get_repo_docs" /\ response # <<>>) =>
        LET r == response[1] IN
        /\ requests = <<DocsRequest>>
        /\ pc = "done"
        /\ (~r.exc /\ r.status = 404) =>
              (outcome = "returned" /\ result = <<>> /\ error = <<>>)
        /\ (~r.exc /\ ~Is2xx(r.status) /\ r.status # 404) =>
              /\ outcome = "raised"
              /\ error = <<[kind |-> "upstream", status |-> r.status,
                            body |-> r.body]>>
        /\ (~r.exc /\ Is2xx(r.status)) => (outcome = "returned" /\ error = <<>>)
        /\ (outcome = "returned" /\ result # <<>>) =>
              (~r.exc /\ Is2xx(r.status))

\* The folder request answered 404 and the call returned the empty list.
C9_Witness ==
    /\ op = "get_repo_docs" /\ response # <<>>
    /\ ~response[1].exc /\ response[1].status = 404
    /\ outcome = "returned" /\ result = <<>>

\* C10: on a success response the returned list is, in upstream order, one
\* DocumentFile per entry that is a file whose name ends, in any case, with
\* a supported extension, with type = determine_content_type(name); no
\* other entry is in it.
C10_DocsFilter ==
    (op = "get_repo_docs" /\ response # <<>> /\ ~Failed(response[1])) =>
        LET kept == SelectSeq(response[1].json, Retained) IN
        /\ outcome = "returned"
        /\ Len(result) = Len(kept)
        /\ \A k \in DOMAIN kept :
              /\ result[k].name = kept[k].name
              /\ result[k].id = kept[k].sha
              /\ result[k].path = kept[k].path
              /\ result[k].url = kept[k].html_url
              /\ result[k].type = determine_content_type(kept[k].name)

\* notes.txt and Guide.MD were listed, and Guide.MD alone was returned,
\* as markdown.
C10_Witness ==
    /\ op = "get_repo_docs" /\ response # <<>> /\ ~Failed(response[1])
    /\ Len(response[1].json) = 2
    /\ response[1].json[1].type = "file"
    /\ response[1].json[1].name = <<"n", "o", "t", "e", "s", ".", "t", "x", "t">>
    /\ response[1].json[2].type = "file"
    /\ response[1].json[2].name = <<"G", "u", "i", "d", "e", ".", "M", "D">>
    /\ Len(result) = 1
    /\ result[1].name = <<"G", "u", "i", "d", "e", ".", "M", "D">>
    /\ result[1].type = "markdown"

----------------------------------------------------------------------------
(* Properties of the records get_repo_docs returns. *)

\* C11: every DocumentFile get_repo_docs returns carries a size field, the
\* size of its upstream entry, so that a consumer reading doc['size']
\* (documentation_resource, the integration test) finds every key it reads.
C11_Original ==
    (op = "get_repo_docs" /\ outcome = "returned") =>
        LET kept == SelectSeq(response[1].json, Retained) IN
        \A k \in DOMAIN result :
            /\ documentation_resource_reads \subseteq DOMAIN result[k]
            /\ "size" \in DOMAIN result[k]
            /\ result[k].size = kept[k].size

----------------------------------------------------------------------------
(* Properties of get_file_content. *)

\* The response of the call's request, once it is there.
FileResponse == response[1]

\* The call received a 200 with a content string that is not empty.
HasContent ==
    /\ op = "get_file_content" /\ response # <<>>
    /\ ~Failed(FileResponse)
    /\ FileResponse.json.content \notin {<<>>, << <<>> >>}

\* The content string the upstream sent.
UpstreamContent == FileResponse.json.content[1]

\* A string with its newlines taken out.
WithoutNewlines(str) == SelectSeq(str, LAMBDA c : c # 10)

\* C12: every FileContent get_file_content returns carries name, path,
\* content, size, sha and encoding, with size and sha taken from the
\* upstream response.
C12_Original ==
    (op = "get_file_content" /\ outcome = "returned") =>
        /\ DOMAIN result = {"name", "path", "content", "size", "sha", "encoding"}
        /\ result.size = FileResponse.json.size
        /\ result.sha = FileResponse.json.sha

\* C13: get_file_content never returns when its request did not succeed: a
\* 404 raises an error that names the requested path, every other non-2xx
\* status raises an error that carries the status and the response body,
\* a network exception is raised as it is; and it returns only on success.
C13_FileFailuresRaise ==
    (op = "get_file_content" /\ response # <<>>) =>
        LET r == FileResponse IN
        /\ Failed(r) => (outcome = "raised" /\ result = <<>>)
        /\ (~r.exc /\ r.status = 404) =>
              error = <<[kind |-> "file_not_found", path |-> arg]>>
        /\ (~r.exc /\ ~Is2xx(r.status) /\ r.status # 404) =>
              error = <<[kind |-> "upstream", status |-> r.status,
                         body |-> r.body]>>
        /\ outcome = "returned" => (~Failed(r) /\ error = <<>>)

\* The request for doc/api.yml answered 404 and the call raised "File not
\* found: doc/api.yml".
C13_Witness ==
    /\ op = "get_file_content" /\ response # <<>>
    /\ ~FileResponse.exc /\ FileResponse.status = 404
    /\ outcome = "raised"
    /\ error[1].kind = "file_not_found"
    /\ error[1].path = <<"d", "o", "c", "/", "a", "p", "i", ".", "y", "m", "l">>

\* The base64 of the UTF-8 of every text.
Encoded == [t \in Texts |-> B64Encode(Utf8Encode(t))]

EncodedTexts == {Encoded[t] : t \in Texts}

\* The text a base64 string is the encoding of (no two texts have the same).
TextOf == [str \in EncodedTexts |-> CHOOSE t \in Texts : Encoded[t] = str]

\* C14: for every text t, when the upstream content is the base64 of the
\* UTF-8 of t broken by newlines at any positions (without its newlines it
\* is Encoded[t], so t is its TextOf), the returned content is t;
\* "aGVsbG8=" followed by a newline gives "hello".
C14_DecodeRoundTrip ==
    HasContent =>
        /\ LET str == WithoutNewlines(UpstreamContent) IN
           str \in EncodedTexts =>
              (outcome = "returned" /\ result.content = TextOf[str])
        /\ UpstreamContent = ExampleContent
              => result.content = <<104, 101, 108, 108, 111>>

\* The upstream sent "aO", a newline, "KCrA==" and a newline, and the call
\* returned "h" and the euro sign.
C14_Witness ==
    /\ HasContent
    /\ UpstreamContent = <<97, 79, 10, 75, 67, 114, 65, 61, 61, 10>>
    /\ outcome = "returned"
    /\ result.content = <<104, 8364>>

\* A character of the base64 alphabet: A-Z a-z 0-9 + /
Base64Char(c) == c \in (65..90) \cup (97..122) \cup (48..57) \cup {43, 47}

\* Base64 as RFC 4648 writes it: groups of four characters of the
\* alphabet, the last group ending in at most two "=".
WellFormedBase64(str) ==
    /\ Len(str) % 4 = 0
    /\ \A i \in DOMAIN str :
          \/ Base64Char(str[i])
          \/ /\ str[i] = 61
             /\ i >= Len(str) - 1
             /\ str[Len(str)] = 61

\* The string is the base64 of bytes that are not UTF-8.
EncodesInvalidUtf8(str) == \E b \in InvalidUtf8 : str = B64Encode(b)

\* C15 as stated: for every upstream content string that is malformed
\* base64 or does not decode to valid UTF-8, the call does not raise and
\* returns the upstream string unmodified.
C15_Original ==
    HasContent =>
        LET str == WithoutNewlines(UpstreamContent) IN
        (~WellFormedBase64(str) \/ EncodesInvalidUtf8(str)) =>
            (outcome = "returned" /\ result.content = UpstreamContent)

\* The number of characters of the base64 alphabet in a string.
Base64Chars(str) == Len(SelectSeq(str, Base64Char))

\* C15, amended: a 200 response always returns, whatever its content; and
\* the returned content is the upstream string unmodified when that string
\* holds a character that is not ASCII, or holds no "=" and a number of
\* base64 characters that is not a multiple of four, or is the base64 of
\* bytes that are not UTF-8.
C15_DecodeFailureFallsBack ==
    HasContent =>
        LET str == WithoutNewlines(UpstreamContent) IN
        /\ outcome = "returned" /\ error = <<>>
        /\ ( \/ \E i \in DOMAIN str : str[i] > 127
             \/ (\A i \in DOMAIN str : str[i] # 61) /\ Base64Chars(str) % 4 # 0
             \/ EncodesInvalidUtf8(str) )
              => result.content = UpstreamContent

\* The upstream sent "4o", a newline and "I=", the base64 of a truncated
\* euro sign, and the call returned that string, newline included.
C15_Witness ==
    /\ HasContent
    /\ UpstreamContent = <<52, 111, 10, 73, 61>>
    /\ outcome = "returned"
    /\ result.content = <<52, 111, 10, 73, 61>>

----------------------------------------------------------------------------
(* Properties of determine_content_type. *)

\* name starts, case-insensitively, with prefix.
StartsWithIgnoringCase(name, prefix) ==
    /\ Len(prefix) <= Len(name)
    /\ \A i \in DOMAIN prefix : SameCharIgnoringCase(name[i], prefix[i])

\* The first rule of the list that matches name.
FirstMatchingRule(name) ==
    LET Ends(ext) == EndsWithIgnoringCase(name, ext) IN
    CASE Ends(<<".", "m", "m", "d">>)
            \/ Ends(<<".", "m", "e", "r", "m", "a", "i", "d">>) -> "mermaid"
      [] OTHER ->
    CASE Ends(<<".", "m", "d">>) -> "markdown"
      [] OTHER ->
    CASE Ends(<<".", "s", "v", "g">>) -> "svg"
      [] OTHER ->
    CASE Ends(<<".", "y", "m", "l">>) \/ Ends(<<".", "y", "a", "m", "l">>) -> "openapi"
      [] OTHER ->
    CASE Ends(<<".", "j", "s", "o", "n">>)
            /\ StartsWithIgnoringCase(name, <<"p", "o", "s", "t", "m", "a", "n">>)
                -> "postman"
      [] OTHER ->
    CASE Ends(<<".", "j", "s", "o", "n">>) -> "openapi"
      [] OTHER -> "unknown"

ContentType == {"markdown", "mermaid", "svg", "openapi", "postman", "unknown"}

\* C16: determine_content_type is total: every call returns, and returns
\* the result of the first matching rule in the order mermaid (.mmd,
\* .mermaid), markdown (.md), svg (.svg), openapi (.yml, .yaml), postman
\* (.json and a name that starts with postman), openapi (.json), unknown;
\* the result is one of the six content types.
C16_FirstMatchingRule ==
    op = "determine_content_type" =>
        /\ pc = "done" => (outcome = "returned" /\ error = <<>>)
        /\ outcome # "raised"
        /\ outcome = "returned" =>
              /\ result = FirstMatchingRule(arg)
              /\ result \in ContentType

\* Postman_c.JSON was classified postman, not openapi.
C16_Witness ==
    /\ op = "determine_content_type"
    /\ arg = <<"P", "o", "s", "t", "m", "a", "n", "_", "c", ".", "J", "S", "O", "N">>
    /\ outcome = "returned"
    /\ result = "postman"

\* str.upper() on one character: long s gives S, dotless i gives I and
\* sharp s gives SS.
UpperChar(c) ==
    IF \E k \in DOMAIN LowerChars : LowerChars[k] = c
    THEN <<UpperChars[CHOOSE k \in DOMAIN LowerChars : LowerChars[k] = c]>>
    ELSE IF c = "U+017F" THEN <<"S">>
    ELSE IF c = "U+0131" THEN <<"I">>
    ELSE IF c = "U+00DF" THEN <<"S", "S">>
    ELSE <<c>>

\* str.upper()
RECURSIVE Upper(_)
Upper(str) ==
    IF str = <<>> THEN <<>> ELSE UpperChar(Head(str)) \o Upper(Tail(str))

\* The name is made of ASCII characters.
IsAscii(str) ==
    \A i \in DOMAIN str : str[i] \notin {"U+017F", "U+0131", "U+00DF"}

\* C17 as stated: for all filenames f, determine_content_type(f) =
\* determine_content_type(f.upper()).
C17_Original ==
    (op = "determine_content_type" /\ outcome = "returned") =>
        result = determine_content_type(Upper(arg))

\* C17, amended: for all filenames f of ASCII characters,
\* determine_content_type(f) = determine_content_type(f.upper()), the
\* postman-prefix rule included.
C17_CaseInsensitiveOnAscii ==
    (op = "determine_content_type" /\ outcome = "returned" /\ IsAscii(arg)) =>
        result = determine_content_type(Upper(arg))

\* postman_collection.json and POSTMAN_COLLECTION.JSON are both postman.
C17_Witness ==
    /\ op = "determine_content_type" /\ outcome = "returned"
    /\ arg = <<"p", "o", "s", "t", "m", "a", "n", "_", "c", "o", "l", "l", "e",
               "c", "t", "i", "o", "n", ".", "j", "s", "o", "n">>
    /\ Upper(arg) = <<"P", "O", "S", "T", "M", "A", "N", "_", "C", "O", "L", "L", "E",
                      "C", "T", "I", "O", "N", ".", "J", "S", "O", "N">>
    /\ result = "postman"
    /\ determine_content_type(Upper(arg)) = "postman"

----------------------------------------------------------------------------
(* Properties of search_documentation. *)

\* The call raised on a status that is not a success.
RaisedOnStatus ==
    /\ op = "search_documentation" /\ response # <<>>
    /\ ~response[1].exc /\ ~Is2xx(response[1].status)
    /\ outcome = "raised"

C19_SearchProjection ==
    (op = "search_documentation" /\ response # <<>> /\ ~Failed(response[1])) =>
        LET items == response[1].json.items IN
        /\ outcome = "returned"
        /\ Len(result) = Len(items)
        /\ \A i \in DOMAIN items :
              /\ result[i].name = items[i].name
              /\ result[i].path = items[i].path
              /\ result[i].url = items[i].html_url
              /\ result[i].repository =
                    (IF items[i].repository # <<>>
                        /\ items[i].repository[1].name # <<>>
                     THEN items[i].repository[1].name[1]
                     ELSE "")

\* The same item came three times and three equal results were returned.
C19_Witness ==
    /\ op = "search_documentation" /\ response # <<>> /\ ~Failed(response[1])
    /\ Len(response[1].json.items) = 3
    /\ response[1].json.items[1] = response[1].json.items[2]
    /\ response[1].json.items[2] = response[1].json.items[3]
    /\ outcome = "returned"
    /\ Len(result) = 3
    /\ result[1] = result[2] /\ result[2] = result[3]

----------------------------------------------------------------------------
(* The sessions of the four operations. *)

\* C20: a call of get_org_repos, get_repo_docs, get_file_content or
\* search_documentation opens exactly one session, with its first request;
\* the session is open at every later request of the call (the search,
\* every enumeration page, every probe) and no other is opened; and once
\* the call is over, by a return, by the empty list on 404 or by an error,
\* the session is closed.
C20_OneSessionPerCall ==
    op \in {"get_org_repos", "get_repo_docs", "get_file_content",
            "search_documentation"} =>
        /\ requests = <<>> => (session = "none" /\ opened = 0)
        /\ requests # <<>> => opened = 1
        /\ (requests # <<>> /\ pc # "done") => session = "open"
        /\ pc = "done" => (requests # <<>> /\ session = "closed")

\* get_org_repos fell back, enumerated a page of two repositories and an
\* empty page, probed both: five requests on one session, now closed.
C20_Witness ==
    /\ op = "get_org_repos" /\ outcome = "returned"
    /\ Len(requests) = 5 /\ Len(probes) = 2
    /\ opened = 1 /\ session = "closed"

----------------------------------------------------------------------------
(* Properties of the requests of a call. *)

SingleRequestOperations ==
    {"get_repo_docs", "get_file_content", "search_documentation"}

\* C22: no request is made twice.  get_repo_docs, get_file_content and
\* search_documentation have made exactly one request when they are over,
\* whether it succeeded or failed; get_org_repos makes the search request
\* once, asks for no enumeration page twice, and probes the i-th enumerated
\* repository with its i-th probe, once each when it returns.
C22_NoRetry ==
    /\ op \in SingleRequestOperations =>
          /\ Len(requests) <= 1
          /\ pc = "done" => Len(requests) = 1
    /\ op = "get_org_repos" =>
          /\ Len(SelectSeq(requests, LAMBDA q : q.kind = "search")) <= 1
          /\ pc # "search" => Len(SelectSeq(requests, LAMBDA q : q.kind = "search")) = 1
          /\ \A i, j \in DOMAIN EnumRequests :
                i # j => EnumRequests[i].page # EnumRequests[j].page
          /\ Len(ProbeRequests) <= Len(Enumerated)
          /\ \A i \in DOMAIN ProbeRequests :
                ProbeRequests[i].repo = Enumerated[i].name[1]
          /\ (outcome = "returned" /\ SearchFailed) =>
                Len(ProbeRequests) = Len(Enumerated)

\* The search failed, page 1 was full, page 2 failed: the call raised after
\* three requests, each made once.
C22_Witness ==
    /\ op = "get_org_repos" /\ outcome = "raised"
    /\ Len(requests) = 3
    /\ Failed(searchResp[1])
    /\ Len(enumResps) = 2 /\ Failed(enumResps[2])
    /\ EnumRequests[1].page = 1 /\ EnumRequests[2].page = 2

\* The error of a request that failed on the network.
NetworkFailure == [kind |-> "network", status |-> 0, body |-> <<>>]

\* C23: a network exception is absorbed in two places only.  On the search
\* request of get_org_repos the call goes on to the enumeration, and on a
\* probe it gives hasDocFolder = FALSE and the call goes on.  On an
\* enumeration page and on the request of get_repo_docs, get_file_content
\* and search_documentation the call raises that exception and returns
\* nothing; so a call that returned saw an exception on no request but
\* the search and the probes.
C23_NetworkExceptions ==
    /\ op = "get_org_repos" =>
          /\ (searchResp # <<>> /\ searchResp[1].exc) =>
                /\ pc # "search"
                /\ outcome = "raised" =>
                      (enumResps # <<>> /\ Failed(Last(enumResps)))
          /\ \A i \in DOMAIN probes :
                probes[i].exc =>
                    (outcome # "raised" /\ ~result[i].hasDocFolder)
          /\ \A i \in DOMAIN enumResps :
                enumResps[i].exc =>
                    /\ i = Len(enumResps)
                    /\ pc = "done" /\ outcome = "raised"
                    /\ error = <<NetworkFailure>>
                    /\ probes = <<>>
    /\ (op \in SingleRequestOperations /\ response # <<>> /\ response[1].exc) =>
              /\ pc = "done" /\ outcome = "raised"
              /\ error = <<NetworkFailure>>
              /\ result = <<>>
    /\ outcome = "returned" =>
          /\ \A i \in DOMAIN enumResps : ~enumResps[i].exc
          /\ response # <<>> => ~response[1].exc

\* The search and the first probe failed on the network and the call
\* returned, the first repository without a doc folder.
C23_Witness ==
    /\ op = "get_org_repos" /\ outcome = "returned"
    /\ searchResp[1].exc
    /\ probes # <<>> /\ probes[1].exc
    /\ ~result[1].hasDocFolder

\* The place of a request of get_org_repos in the order of its phases.
Phase(q) == IF q.kind = "search" THEN 1 ELSE IF q.kind = "enum" THEN 2 ELSE 3

\* C25: the requests of a get_org_repos call are strictly ordered.  The
\* search request is the first and has been answered before any other; the
\* enumeration requests follow it, each answered before the next; the probes
\* come after the last page (a short or empty one) has been answered, in the
\* order of the repository list, each answered before the next is made.
C25_RequestOrder ==
    op = "get_org_repos" =>
        /\ requests # <<>> => (requests[1].kind = "search" /\ searchResp # <<>>)
        /\ \A i, j \in DOMAIN requests :
              i < j => Phase(requests[i]) <= Phase(requests[j])
        /\ Len(requests) = Len(searchResp) + Len(enumResps) + Len(probes)
        /\ Len(enumResps) = Len(EnumRequests)
        /\ \A i \in DOMAIN EnumRequests : EnumRequests[i].page = i
        /\ ProbeRequests # <<>> =>
              /\ ~Failed(Last(enumResps))
              /\ Len(Last(enumResps).json) < RESULTS_PER_PAGE
        /\ Len(probes) = Len(ProbeRequests)
        /\ \A i \in DOMAIN ProbeRequests :
              ProbeRequests[i].repo = Enumerated[i].name[1]

\* Search, page 1 with alpha and beta, the empty page 2, then the probe of
\* alpha and the probe of beta.
C25_Witness ==
    /\ op = "get_org_repos"
    /\ Len(requests) = 5
    /\ requests[1].kind = "search"
    /\ requests[2].kind = "enum" /\ requests[3].kind = "enum"
    /\ requests[4].kind = "probe" /\ requests[5].kind = "probe"
    /\ requests[4].repo = Enumerated[1].name[1]
    /\ requests[5].repo = Enumerated[2].name[1]
    /\ requests[4].repo # requests[5].repo

KnownTypes == {"markdown", "mermaid", "svg", "openapi", "postman"}

\* C26: the filter of get_repo_docs and the classifier agree.  Every
\* DocumentFile of a returned listing has one of the five known types, and
\* every name the filter accepts is classified as one of them.
C26_FilterAgreesWithClassifier ==
    /\ (op = "get_repo_docs" /\ outcome = "returned") =>
          \A i \in DOMAIN result : result[i].type \in KnownTypes
    /\ (op = "determine_content_type" /\ pc = "done" /\ Supported(arg)) =>
          result \in KnownTypes

\* A listing of two files was returned, one of them with an upper-case
\* extension.
C26_Witness ==
    /\ op = "get_repo_docs"
    /\ outcome = "returned"
    /\ Len(result) = 2
    /\ result[1].name = <<"G", "u", "i", "d", "e", ".", "M", "D">>
    /\ result[2].type = "postman"

----------------------------------------------------------------------------
(* Properties of the headers. *)

\* A token is configured when the environment holds a non-empty GITHUB_TOKEN.
TokenConfigured == environ # <<>> /\ environ[1] # <<>>

\* C24: every upstream request carries Accept application/vnd.github.v3+json
\* and a User-Agent that contains GitHub-MCP-Server; it carries the
\* Authorization header "token <value>" exactly when a token is configured,
\* so that without a GITHUB_TOKEN in the environment no request carries an
\* Authorization header.
C24_Original ==
    \A i \in DOMAIN requests :
        LET headers == requests[i].headers IN
        /\ headers.Accept = "application/vnd.github.v3+json"
        /\ Contains(headers.User_Agent,
                    <<"G", "i", "t", "H", "u", "b", "-", "M", "C", "P", "-",
                      "S", "e", "r", "v", "e", "r">>)
        /\ headers.Authorization # <<>> <=> TokenConfigured
        /\ TokenConfigured =>
              headers.Authorization = << <<"t", "o", "k", "e", "n", " ">> \o environ[1] >>

----------------------------------------------------------------------------
(* Properties of two simultaneous calls. *)

\* C21: two simultaneous calls are independent.  In every interleaving, a
\* step changes the locals of a call only when that call is the running one
\* and goes on running: by a step of its own, a request and what the code
\* does with the response, as it takes it when it is alone.  A step of the
\* other call and a change of the running call leave them as they are.  So
\* each call goes through the states, and ends with the result or the
\* error, of its run alone against the same responses.
C21_Independent ==
    [][\A i \in {1, 2} :
          \/ LocalsOf(i)' = LocalsOf(i)
          \/ running = i /\ running' = i]_vars

\* Call 1 was suspended in the middle of its page requests, call 2 ran
\* meanwhile and has returned from its search.
C21_Witness ==
    /\ parked # <<>>
    /\ running = 2
    /\ op = "get_org_repos"
    /\ outcome = "returned"
    /\ parked[1].op = "get_org_repos"
    /\ parked[1].pc = "enum"
    /\ Len(parked[1].requests) = 2
    /\ Len(requests) = 1

----------------------------------------------------------------------------
(* Properties of MCPClient.call_tool. *)

\* The body of a response is a JSON object with the key "error".
BodyHasErrorKey(a) ==
    /\ a.body.json # <<>>
    /\ a.body.json[1].type = "dict"
    /\ "error" \in DOMAIN a.body.json[1].value

\* The body of a response is a JSON object without the key "error".
BodyWithoutErrorKey(a) ==
    /\ a.body.json # <<>>
    /\ a.body.json[1].type = "dict"
    /\ "error" \notin DOMAIN a.body.json[1].value

\* C27: call_tool never raises.  It returns success=True only when the
\* server answered with a success status and a body without an "error" key;
\* it returns success=False when the body has an "error" key, when the
\* status is an error status, when the request raised, and when it was
\* called with no HTTP client open.
C27_CallToolNeverRaises ==
    tool_result # <<>> =>
        LET r == tool_result[1] IN
        /\ ~r.raised
        /\ r.success =>
              /\ answer # <<>>
              /\ answer[1].exc = <<>>
              /\ Is2xx(answer[1].status)
              /\ BodyWithoutErrorKey(answer[1])
        /\ answer = <<>> => ~r.success
        /\ answer # <<>> =>
              /\ answer[1].exc # <<>> => ~r.success
              /\ ~Is2xx(answer[1].status) => ~r.success
              /\ BodyHasErrorKey(answer[1]) => ~r.success

\* call_tool was called with no HTTP client open and returned a ToolResult.
C27_Witness ==
    /\ client = "none"
    /\ answer = <<>>
    /\ tool_result # <<>>
    /\ ~tool_result[1].raised
    /\ ~tool_result[1].success

----------------------------------------------------------------------------
(* Properties of MCPSSEClient.send_message. *)

\* The events of a stream whose data is not empty.
WithData(stream) == SelectSeq(stream, LAMBDA sse : sse.data # "")

\* C30: the ids of the messages of one client are 1, 2, 3, ... in the order
\* in which send_message is called, also when calls overlap; no id is used
\* twice, on the wire either.  A call that returns gives the parsed data of
\* the first event of its stream that has data, having read no further, or
\* {"error": "No response received"} when the stream has no such event.
C30_MessageIds ==
    /\ \A k \in DOMAIN calls : calls[k].message.id = k
    /\ message_id = Len(calls)
    /\ \A i, j \in DOMAIN wire : i # j => wire[i].id # wire[j].id
    /\ \A i \in DOMAIN wire :
          wire[i].id \in DOMAIN calls /\ wire[i] = calls[wire[i].id].message
    /\ \A k \in DOMAIN calls :
          calls[k].outcome = "returned" =>
              LET events == WithData(calls[k].stream) IN
              IF events = <<>>
              THEN /\ calls[k].result = <<NoResponse>>
                   /\ calls[k].read = Len(calls[k].stream)
              ELSE /\ calls[k].result = events[1].json
                   /\ calls[k].stream[calls[k].read] = events[1]
                   /\ WithData(SubSeq(calls[k].stream, 1, calls[k].read - 1)) = <<>>

\* Two calls overlapped, the message of the second reached the server
\* first, and both returned: one the data of the first event with data, the
\* other the error for a stream without one.
C30_Witness ==
    /\ Len(calls) = 2
    /\ Len(wire) = 2
    /\ wire[1].id = 2
    /\ wire[2].id = 1
    /\ calls[1].outcome = "returned"
    /\ calls[1].stream = <<KeepAlive, Reply>>
    /\ calls[2].outcome = "returned"
    /\ calls[2].result = <<NoResponse>>

----------------------------------------------------------------------------
(* Properties of the showcase server. *)

\* C28: every tool name GET /api/tools advertises can be executed through
\* POST /api/tools/{tool_name}: the reply to the execution of an advertised
\* name is never the error "Tool '<name>' not found".
C28_Original ==
    \A r \in {reply[k] : k \in DOMAIN reply} :
        (/\ r.request = "execute"
         /\ \E k \in DOMAIN AdvertisedTools : AdvertisedTools[k] = r.name)
            => r.body # ToolNotFound(r.name)

\* k as four digits, for k below 10000.
FourDigits(k) ==
    <<DigitChar[((k \div 1000) % 10) + 1], DigitChar[((k \div 100) % 10) + 1],
      DigitChar[((k \div 10) % 10) + 1], DigitChar[(k % 10) + 1]>>

\* C29: after any create_task calls, run in any order, the stored tasks have
\* pairwise distinct ids, the k-th created task has the id task_ followed
\* by k in four digits and is stored under it unchanged, there are as many
\* stored tasks as completed calls, and get_task_resource(id) returns that
\* task (a reply to a read of the resource holds the task, or says that it
\* was not found when the read came before the task).
C29_TaskIds ==
    /\ DictLen(task_storage) = Len(created)
    /\ \A i, j \in DOMAIN task_storage :
          i # j => task_storage[i].key # task_storage[j].key
    /\ \A k \in DOMAIN created :
          /\ created[k].id = <<"t", "a", "s", "k", "_">> \o FourDigits(k)
          /\ DictHas(task_storage, created[k].id)
          /\ DictGet(task_storage, created[k].id) = created[k]
          /\ get_task_resource(task_storage, created[k].id) = created[k]
    /\ \A r \in {reply[k] : k \in DOMAIN reply} :
          r.request = "resource" =>
              \A k \in DOMAIN created :
                  created[k].id = r.name =>
                      \/ r.body = created[k]
                      \/ r.body = get_task_resource(<<>>, r.name)

\* Three calls were made before any of them ran, they ran in another order
\* than they were made, and the second task was read back.
C29_Witness ==
    /\ Len(created) = 3
    /\ pending = <<>>
    /\ created[1].title = "Fix bug"
    /\ created[2].title = "Write docs"
    /\ reply # <<>>
    /\ reply[1].request = "resource"
    /\ reply[1].name = created[2].id
    /\ reply[1].body = created[2]

====
